---- MODULE Spec2Model ----
(***************************************************************************)
(* MP4Demuxer (webcodecs-utils): the progressive loader parseMP4Metadata   *)
(* and the windowed sample extractor extractEncodedSegment, as a state     *)
(* machine over one demuxer, one parser (mp4box's MP4File) and the byte    *)
(* source of one file.                                                     *)
(*                                                                         *)
(* Time.  Every time of the model is a whole number of ticks of 1/30 s:    *)
(* startTime, endTime, info.duration/info.timescale.  A sample's time is   *)
(* the fraction cts/timescale of the source and is compared with tick      *)
(* values by cross-multiplication, so no rounding is introduced; the only  *)
(* rounding is the source's own Math.round to microseconds.                *)
(*                                                                         *)
(* Bytes.  A file is a row of units 0..size-1; a chunk of the byte source  *)
(* is a run of units.  The moov box and every sample occupy known units.   *)
(*                                                                         *)
(* Scheduling.  One action is one run-to-completion segment of JavaScript: *)
(* from a call or the completion of an awaited read to the next await.     *)
(* Parser callbacks (onReady, onError, onSamples) run inside the segment   *)
(* that called appendBuffer, start or flush.                               *)
(***************************************************************************)
EXTENDS Integers, Sequences, FiniteSets, TLC

\* ------------------------------------------------------------ constants
\* Samples per extraction batch.
CHUNK_SIZE == 100
\* 0.5 s, in ticks of 1/30 s.
FRAME_RATE_THRESHOLD == 15
\* 0.1 s, in ticks of 1/30 s.
DURATION_BUFFER == 3
\* Ticks per second: the unit of startTime, endTime and the movie duration.
TicksPerSecond == 30
\* Microseconds per second: the 1e6 of the timestamp conversion.
MicroPerSecond == 1000000
\* Bytes of a box header (4 bytes size + 4 bytes type).
BoxHeaderSize == 8
\* The channel count of an audio track whose sample entry gives none.
DefaultChannels == 2

\* ------------------------------------------------------------ bounds
\* Extraction calls the caller makes on the demuxer.
MaxCalls == 2

\* Tracks of a track list.
MaxTracks == 3
\* Writes made to an InMemoryStorage, the highest position of a write and the
\* most bytes of one.
MaxWrites == 3
MaxPosition == 4
MaxLength == 4
\* Calls made on an MP3Decoder.
MaxDecoderCalls == 4
\* Chunks added to an ExampleMuxer.
MaxChunks == 3

Calls == 1..MaxCalls
TrackTypes == {"video", "audio"}

Min(a, b) == IF a < b THEN a ELSE b
Abs(a) == IF a < 0 THEN -a ELSE a

\* Math.round of the fraction n/d (d > 0, n >= 0): the nearest integer, halves up.
Round(n, d) == (2 * n + d) \div (2 * d)

\* ------------------------------------------------------------ files
\* A sample of a track, as the parser's sample table holds it: number (its
\* index in the track, from 0), cts and duration in the track's timescale,
\* the sync flag, and pos, the unit of the file that holds its data.
MkSample(n, c, d, ts, sync, p) ==
  [number |-> n, cts |-> c, duration |-> d, timescale |-> ts, is_sync |-> sync, pos |-> p]

\* 104 frames at 30 fps, a key frame every 30, stored from unit `base` on.
DenseTrack(base) ==
  [i \in 1..104 |-> MkSample(i - 1, i - 1, 1, 30, (i - 1) % 30 = 0, base + i - 1)]

\* Four frames 40 ticks (1.33 s) apart, all key frames, at units base, base+10, ...
SparseTrack(base) ==
  [i \in 1..4 |-> MkSample(i - 1, 40 * (i - 1), 40, 30, TRUE, base + 10 * (i - 1))]

\* Five audio frames at timescale 3 (1/3 s each), at units base, base+10, ...
AudioTrack(base) ==
  [i \in 1..5 |-> MkSample(i - 1, i - 1, 1, 3, TRUE, base + 10 * (i - 1))]

\* 204 frames at 30 fps, a key frame every 30, four frames to a unit.
LongTrack(base) ==
  [i \in 1..204 |->
     MkSample(i - 1, i - 1, 1, 30, (i - 1) % 30 = 0, base + ((i - 1) \div 4))]

\* The presentation times, in delivery order, of seven frames 1/3 s apart
\* with bidirectional prediction (I P B B P B B).
ReorderedCts == <<0, 30, 10, 20, 60, 40, 50>>

\* Seven frames whose presentation order differs from their delivery order;
\* the first is the only key frame.
ReorderedTrack(base) ==
  [i \in 1..7 |-> MkSample(i - 1, ReorderedCts[i], 10, 30, i = 1, base + i - 1)]

\* A file: size in units; moovEnd, the number of leading units the parser needs
\* before the movie box is parsed (0: the file holds none); errAt, the unit at
\* which the parser meets a malformed box (-1: none); the movie duration in
\* ticks; the tracks' sample tables (<<>>: the file has no such track); stsd,
\* the sample-description entries of the video track, each the set of the
\* configuration boxes it carries.
Files ==
  { \* 30 fps video only, moov first
    [name |-> "dense", size |-> 106, moovEnd |-> 2, errAt |-> -1, duration |-> 104,
     video |-> DenseTrack(2), audio |-> << >>, stsd |-> <<{"avcC"}>>],
    \* sparse video and audio interleaved, moov last
    [name |-> "sparse", size |-> 48, moovEnd |-> 48, errAt |-> -1, duration |-> 160,
     video |-> SparseTrack(0), audio |-> AudioTrack(5), stsd |-> <<{"avcC"}>>],
    \* cut off before any movie box
    [name |-> "truncated", size |-> 45, moovEnd |-> 0, errAt |-> -1, duration |-> 0,
     video |-> << >>, audio |-> << >>, stsd |-> << >>],
    \* no bytes at all
    [name |-> "empty", size |-> 0, moovEnd |-> 0, errAt |-> -1, duration |-> 0,
     video |-> << >>, audio |-> << >>, stsd |-> << >>] }

\* Files in which the parser meets a malformed box.
MalformedFiles ==
  { \* a malformed box at unit 1, no movie box
    [name |-> "corrupt", size |-> 45, moovEnd |-> 0, errAt |-> 1, duration |-> 0,
     video |-> << >>, audio |-> << >>, stsd |-> << >>],
    \* a malformed box before the movie box
    [name |-> "glitchFirst", size |-> 48, moovEnd |-> 48, errAt |-> 1, duration |-> 160,
     video |-> SparseTrack(0), audio |-> AudioTrack(5), stsd |-> <<{"avcC"}>>],
    \* moov first, four sparse frames, a malformed box after the last of them
    [name |-> "glitchTail", size |-> 46, moovEnd |-> 2, errAt |-> 44, duration |-> 160,
     video |-> SparseTrack(2), audio |-> << >>, stsd |-> <<{"avcC"}>>] }

\* Files with a long video track and with a reordered one.
TrackFiles ==
  { [name |-> "long", size |-> 54, moovEnd |-> 2, errAt |-> -1, duration |-> 204,
     video |-> LongTrack(2), audio |-> << >>, stsd |-> <<{"avcC"}>>],
    [name |-> "reordered", size |-> 10, moovEnd |-> 2, errAt |-> -1, duration |-> 65,
     video |-> ReorderedTrack(2), audio |-> AudioTrack(3), stsd |-> <<{"avcC"}>>] }

\* A file whose movie box ends past the first chunk of any source, with sample
\* data for more than one chunk after it.
FeedFiles ==
  { [name |-> "lateMoov", size |-> 110, moovEnd |-> 44, errAt |-> -1, duration |-> 160,
     video |-> SparseTrack(50), audio |-> << >>, stsd |-> <<{"avcC"}>>] }

\* Windows over a whole track: to the duration, with the end unspecified, and
\* from 2 s on.
TrackWindows(f) == { <<0, f.duration>>, <<0, 0>>, <<60, 0>> }

\* Files that differ in their track list and sample descriptions.
MetaFiles ==
  { \* video and audio, the video track's second entry carries the configuration
    [name |-> "av", size |-> 48, moovEnd |-> 48, errAt |-> -1, duration |-> 160,
     video |-> SparseTrack(0), audio |-> AudioTrack(5),
     stsd |-> <<{}, {"hvcC", "av1C"}, {"avcC"}>>],
    \* video and audio, no entry of the video track carries a configuration box
    [name |-> "avNoConfig", size |-> 48, moovEnd |-> 2, errAt |-> -1, duration |-> 160,
     video |-> SparseTrack(2), audio |-> AudioTrack(7), stsd |-> <<{}>>],
    \* audio only
    [name |-> "audioOnly", size |-> 48, moovEnd |-> 2, errAt |-> -1, duration |-> 50,
     video |-> << >>, audio |-> AudioTrack(5), stsd |-> << >>],
    \* a movie box whose track list has neither a video nor an audio track
    [name |-> "textOnly", size |-> 45, moovEnd |-> 2, errAt |-> -1, duration |-> 160,
     video |-> << >>, audio |-> << >>, stsd |-> << >>],
    \* cut off before any movie box
    [name |-> "cutOff", size |-> 45, moovEnd |-> 0, errAt |-> -1, duration |-> 0,
     video |-> << >>, audio |-> << >>, stsd |-> << >>] }

\* The lengths of the chunks a byte source may deliver.
ChunkSizes == {40, 64}

\* The windows (startTime, endTime) a caller asks for, in ticks; endTime 0 is
\* an unspecified end.
Windows == { <<0, 0>>, <<0, 60>>, <<10, 50>>, <<90, 60>> }

\* ------------------------------------------------------------ state
VARIABLES
  file,     \* the file the demuxer was constructed with
  mp4,      \* the parser MP4Box.createFile made for load()
  ld,       \* the parseMP4Metadata call of load()
  mp4Data,  \* MP4Demuxer.mp4Data is set
  ex,       \* the extractEncodedSegment calls, by call number
  nCalls,   \* extractSegment calls made so far
  got,      \* the caller's last call of a getter and its outcome
  browser,  \* what the browser gives a GPUFrameRenderer: navigator.gpu and the rest
  renderer, \* a GPUFrameRenderer and its canvas
  again,    \* the parser and the parseMP4Metadata call of a second load()
  loaded,   \* which load() this.mp4Data is from, and how each load() returned
  listing,  \* a track list (MP4Info), its summaries and the track an extraction selects
  storage,  \* an InMemoryStorage and the writes made to it
  decoder,  \* an MP3Decoder, its calls and the workers created for it
  muxer     \* an ExampleMuxer and the calls made on its output and source

vars == <<file, mp4, ld, mp4Data, ex, nCalls, got, browser, renderer, again, loaded, listing, storage, decoder, muxer>>

\* The tracks of the file, in info.tracks order.
FileTracks(f) == {tt \in TrackTypes : Len(f[tt]) > 0}

NoCall ==
  [pc |-> "idle", trackType |-> "none", trackId |-> "none", startTime |-> 0,
   endTime |-> 0, normalizedEnd |-> 0, seekSample |-> 0, fileOffset |-> 0,
   extractionFinished |-> FALSE, chunks |-> << >>, locked |-> FALSE,
   promise |-> "none", result |-> << >>, error |-> "none",
   reads |-> 0, appends |-> 0, appendsAfterFinished |-> 0,
   batches |-> 0, pastEnd |-> FALSE, finishedAtLen |-> -1,
   parseErrors |-> 0, errorBeforeStop |-> FALSE, chunksAtError |-> 0,
   readsAfterError |-> 0, appendsAfterError |-> 0, ioPending |-> FALSE,
   checkedUnreleased |-> FALSE, resolvedUnreleased |-> FALSE,
   fedByOther |-> FALSE, seekOffset |-> -1, prepared |-> "no",
   feedEnd |-> -1, feedOk |-> TRUE, handled |-> 0, parser |-> 0]

\* No getter has been called.
NoGot == [op |-> "none", at |-> "none", threw |-> "none", value |-> << >>]

\* The browsers a renderer may run in: navigator.gpu present or not; what
\* requestAdapter and requestDevice settle with; what
\* canvas.getContext('webgpu') returns on a fresh canvas; whether the set-up
\* calls that follow (configure, createSampler, ..., createRenderPipeline) throw.
Browsers ==
  [gpu : BOOLEAN, adapter : {"ok", "null", "throws"},
   device : {"ok", "null", "throws"}, context : {"ok", "null"},
   setup : {"ok", "throws"}]

FilterModes == {"linear", "bicubic"}

\* new GPUFrameRenderer(canvas, {filterMode}): the fields after the
\* constructor, with the canvas (no context yet), where init() stands, what
\* initWebGPU returned and the outcome of the last drawImage.
Constructor(filterMode) ==
  [pc |-> "constructed", mode |-> "webgpu", filterMode |-> filterMode,
   device |-> FALSE, context |-> FALSE, pipelines |-> FALSE, bitmapCtx |-> FALSE,
   canvasContext |-> "none", initWebGPU |-> "none",
   lastDraw |-> "none", lastDrawAt |-> "none"]

\* MP4Box.createFile(false): a parser nothing was appended to.
NewParser ==
  [appended |-> {}, readySent |-> FALSE, started |-> FALSE,
            onSamples |-> 0, onError |-> "none", onErrorCall |-> 0,
            extracted |-> << >>,
            nextSample |-> [tt \in TrackTypes |-> 0],
            held |-> [tt \in TrackTypes |-> {}],
            lastValidSample |-> [tt \in TrackTypes |-> 0],
            delivered |-> [tt \in TrackTypes |-> {}],
            peak |-> 0,
            errorSignalled |-> FALSE,
            unreleased |-> << >>, overrun |-> FALSE, strayRelease |-> FALSE]

\* A parseMP4Metadata call not yet made.
NewLoad ==
  [pc |-> "idle", offset |-> 0, metadataReady |-> FALSE, locked |-> FALSE,
           promise |-> "none", error |-> "none", reads |-> 0,
           readsAfterReady |-> 0, stepsAfterResolve |-> 0, stepsAfterExtract |-> 0,
           ioFailed |-> FALSE, ioPending |-> FALSE,
           feedEnd |-> -1, feedOk |-> TRUE, parseErrors |-> 0, readyAfterError |-> FALSE,
           readsAfterError |-> 0, appendsAfterError |-> 0,
           value |-> << >>, thrown |-> FALSE]

\* The demuxer as constructed on a file of `files`.
DemuxerInit(files) ==
  /\ file \in files
  /\ mp4 = NewParser
  /\ ld = NewLoad
  /\ again = [mp4 |-> NewParser, ld |-> NewLoad]
  /\ loaded = [from |-> 0, returned |-> <<"no", "no">>]
  /\ mp4Data = FALSE
  /\ ex = [c \in Calls |-> NoCall]
  /\ nCalls = 0
  /\ got = NoGot

\* No track list looked at.
NoListing == [tracks |-> << >>, trackData |-> << >>, selected |-> << >>]

\* No InMemoryStorage constructed.
NoStorage == [pc |-> "none"]

\* No MP3Decoder constructed.
NoDecoder == [pc |-> "none"]

\* No ExampleMuxer constructed.
NoMuxer == [pc |-> "none"]

\* The demuxer as constructed, beside a renderer nobody uses.
InitWith(files) ==
  /\ DemuxerInit(files)
  /\ browser = [gpu |-> FALSE, adapter |-> "null", device |-> "null",
                context |-> "null", setup |-> "ok"]
  /\ renderer = Constructor("linear")
  /\ listing = NoListing
  /\ storage = NoStorage
  /\ decoder = NoDecoder
  /\ muxer = NoMuxer

\* The demuxer as constructed, for a file the parser finds no fault with.
Init == InitWith(Files)

\* The same, for any file.
FaultInit == InitWith(Files \cup MalformedFiles)

\* The same, for a file in which the parser meets a malformed box.
MalformedInit == InitWith(MalformedFiles)

\* The same, for a file with a long or a reordered track.
TrackInit == InitWith(TrackFiles)

\* The same, for a file the loader needs several chunks of.
FeedInit == InitWith(FeedFiles)

\* The same, for a file with a video and an audio track.
ReloadInit == InitWith({f \in TrackFiles : f.name = "reordered"})

\* The same, for files of every kind of track list.
MetaInit == InitWith(MetaFiles)

\* The part of the state the callbacks and the parser work on, passed along a
\* run-to-completion segment, with the call whose pull loop is feeding the
\* parser in this segment (0: none).
World == [mp4 |-> mp4, ld |-> ld, ex |-> ex, feeder |-> 0]

\* ------------------------------------------------------------ promises
\* resolve and reject of a promise settle it once; later calls change nothing.
LoadResolve(w, value) ==
  IF w.ld.promise = "pending"
  THEN [w EXCEPT !.ld.promise = "resolved", !.ld.value = <<value>>]
  ELSE w

LoadReject(w, err) ==
  IF w.ld.promise = "pending"
  THEN [w EXCEPT !.ld.promise = "rejected", !.ld.error = err]
  ELSE w

\* resolve(chunks) hands over the array itself: result is what it holds then.
\* resolvedUnreleased notes a resolution that finds a delivered batch not yet
\* released.
ExtractResolve(w, c, value) ==
  IF w.ex[c].promise = "pending"
  THEN [w EXCEPT !.ex[c].promise = "resolved", !.ex[c].result = value,
                 !.ex[c].resolvedUnreleased = (w.mp4.unreleased # << >>)]
  ELSE w

ExtractReject(w, c, err) ==
  IF w.ex[c].promise = "pending"
  THEN [w EXCEPT !.ex[c].promise = "rejected", !.ex[c].error = err]
  ELSE w

\* ------------------------------------------------------------ extraction callbacks
\* The window test without its lower bound.
InWindow_NoLowerBound(sample, startTime, normalizedEnd) ==
  sample.cts * TicksPerSecond < normalizedEnd * sample.timescale

\* sampleTime < normalizedEnd && sampleTime >= startTime, with
\* sampleTime = cts / timescale seconds and the bounds in ticks.
InWindow(sample, startTime, normalizedEnd) ==
  /\ sample.cts * TicksPerSecond < normalizedEnd * sample.timescale
  /\ sample.cts * TicksPerSecond >= startTime * sample.timescale

\* The chunk with the sense of the sync flag inverted.
EncodedChunk_TypeInverted(sample, trackId) ==
  [type |-> IF sample.is_sync THEN "delta" ELSE "key",
   timestamp |-> Round(MicroPerSecond * sample.cts, sample.timescale),
   duration |-> Round(MicroPerSecond * sample.duration, sample.timescale),
   data |-> <<trackId, sample.number>>]

\* new EncodedChunk({type, timestamp, duration, data}); data is the sample's
\* payload, named by the track and the sample's number.
EncodedChunk(sample, trackId) ==
  [type |-> IF sample.is_sync THEN "key" ELSE "delta",
   timestamp |-> Round(MicroPerSecond * sample.cts, sample.timescale),
   duration |-> Round(MicroPerSecond * sample.duration, sample.timescale),
   data |-> <<trackId, sample.number>>]

\* Math.abs(lastChunkTime - normalizedEnd) < FRAME_RATE_THRESHOLD ||
\* lastChunkTime > normalizedEnd, with lastChunkTime = timestamp / 1e6 seconds:
\* both sides multiplied by 1e6 * TicksPerSecond.
StopCondition(timestamp, normalizedEnd) ==
  \/ Abs(TicksPerSecond * timestamp - MicroPerSecond * normalizedEnd)
       < MicroPerSecond * FRAME_RATE_THRESHOLD
  \/ TicksPerSecond * timestamp > MicroPerSecond * normalizedEnd

\* The release freeing the sample `number` too.
ReleaseUsedSamples_Inclusive(w, trackId, number) ==
  LET Freed(n) == w.mp4.lastValidSample[trackId] <= n /\ n <= number
      due == w.mp4.unreleased = <<[id |-> trackId, number |-> number]>>
  IN  [w EXCEPT !.mp4.held[trackId] = {n \in @ : ~Freed(n)},
                !.mp4.delivered[trackId] = {n \in @ : ~Freed(n)},
                !.mp4.lastValidSample[trackId] = number,
                !.mp4.unreleased = IF due THEN << >> ELSE @,
                !.mp4.strayRelease = @ \/ ~due]

\* mp4.releaseUsedSamples(trackId, number): the parser frees the payloads of
\* the track's samples from its lastValidSample up to, and excluding, the
\* sample `number`, which becomes the lastValidSample.  unreleased is the
\* batch handed to the callback and not yet released, by its track and the
\* number of its last sample; strayRelease notes a release that names
\* anything else.
ReleaseUsedSamples(w, trackId, number) ==
  LET Freed(n) == w.mp4.lastValidSample[trackId] <= n /\ n < number
      due == w.mp4.unreleased = <<[id |-> trackId, number |-> number]>>
  IN  [w EXCEPT !.mp4.held[trackId] = {n \in @ : ~Freed(n)},
                !.mp4.delivered[trackId] = {n \in @ : ~Freed(n)},
                !.mp4.lastValidSample[trackId] = number,
                !.mp4.unreleased = IF due THEN << >> ELSE @,
                !.mp4.strayRelease = @ \/ ~due]

\* A delivered sample whose time is at or past normalizedEnd.
PastEnd(sample, normalizedEnd) ==
  sample.cts * TicksPerSecond >= normalizedEnd * sample.timescale

RECURSIVE ProcessTrack(_, _, _)
RECURSIVE OnSamples(_, _, _, _)

\* Sample processing that hands over whatever samples it holds, complete
\* batch or not.
ProcessTrack_Eager(w, f, k) ==
  IF k > Len(w.mp4.extracted) \/ ~w.mp4.started \/ w.mp4.onSamples = 0
  THEN w
  ELSE
    LET e == w.mp4.extracted[k]
        tbl == f[e.id]
        n == w.mp4.nextSample[e.id]
        missing == {j \in (n + 1)..Len(tbl) : tbl[j].pos \notin w.mp4.appended}
        upto == IF missing = {} THEN Len(tbl)
                ELSE (CHOOSE j \in missing : \A i \in missing : j <= i) - 1
        batch == SubSeq(tbl, n + 1, upto)
        w1 == [w EXCEPT !.mp4.nextSample[e.id] = upto,
                        !.mp4.held[e.id] = @ \cup (n .. upto - 1),
                        !.mp4.delivered[e.id] = @ \cup (n .. upto - 1)]
    IN  IF upto <= n THEN ProcessTrack(w, f, k + 1)
        ELSE ProcessTrack(OnSamples(w1, f, w1.mp4.onSamples, batch), f, k + 1)

\* A complete batch is about to go to the callback: its samples are
\* delivered.
BatchSent(w, id, batch) ==
  LET sent == w.mp4.delivered[id] \cup {batch[i].number : i \in 1..Len(batch)}
  IN  [w EXCEPT !.mp4.delivered[id] = sent,
                !.mp4.peak = IF Cardinality(sent) > @ THEN Cardinality(sent) ELSE @,
                !.mp4.overrun = @ \/ w.mp4.unreleased # << >>,
                !.mp4.unreleased = <<[id |-> id, number |-> batch[Len(batch)].number]>>]

\* The batch goes to mp4.onSamples.
HandBatch(w, f, batch) == OnSamples(w, f, w.mp4.onSamples, batch)

\* The callback has returned: the parser forgets the batch, if the track is
\* still extracted.
BatchTaken(w, k, id) ==
  IF k <= Len(w.mp4.extracted) /\ w.mp4.extracted[k].id = id
  THEN [w EXCEPT !.mp4.extracted[k].samples = << >>]
  ELSE w

\* mp4.processSamples, for extracted track number k: every next sample whose
\* data has been appended is taken; a batch goes to mp4.onSamples when the
\* sample count reaches a multiple of nbSamples or the end of the track.
\* One unfolding takes the samples up to the next batch boundary.  overrun
\* notes a batch handed over while the one before it is not yet released.
ProcessTrack(w, f, k) ==
  IF k > Len(w.mp4.extracted) \/ ~w.mp4.started \/ w.mp4.onSamples = 0
  THEN w
  ELSE
    LET e == w.mp4.extracted[k]
        tbl == f[e.id]
        n == w.mp4.nextSample[e.id]
        \* the sample count at which the next batch is complete
        boundary == Min(((n \div e.nb_samples) + 1) * e.nb_samples, Len(tbl))
        \* the first sample after n whose data is not appended, if any
        missing == {j \in (n + 1)..boundary : tbl[j].pos \notin w.mp4.appended}
        upto == IF missing = {} THEN boundary
                ELSE (CHOOSE j \in missing : \A i \in missing : j <= i) - 1
        batch == e.samples \o SubSeq(tbl, n + 1, upto)
        w1 == [w EXCEPT !.mp4.nextSample[e.id] = upto,
                        !.mp4.held[e.id] = @ \cup (n .. upto - 1),
                        !.mp4.extracted[k].samples = batch]
    IN  IF n >= Len(tbl) THEN ProcessTrack(w, f, k + 1)
        ELSE IF upto < boundary THEN ProcessTrack(w1, f, k + 1)
        ELSE ProcessTrack(
               BatchTaken(HandBatch(BatchSent(w1, e.id, batch), f, batch), k, e.id),
               f, k)

\* mp4.processSamples: nothing unless sample processing is started.
ProcessSamples(w, f) == ProcessTrack(w, f, 1)

\* mp4.flush().
Flush(w, f) == ProcessSamples(w, f)

\* mp4.stop().
Stop(w) == [w EXCEPT !.mp4.started = FALSE]

\* The loop over a batch ending at the first sample that fails the window
\* test.
Accepted_UntilFirstMiss(samples, trackId, startTime, normalizedEnd) ==
  LET Test(s) == InWindow(s, startTime, normalizedEnd)
      misses == {i \in 1..Len(samples) : ~Test(samples[i])}
      n == IF misses = {} THEN Len(samples)
           ELSE (CHOOSE i \in misses : \A j \in misses : i <= j) - 1
  IN  [i \in 1..n |-> EncodedChunk(samples[i], trackId)]

\* The samples of a batch that pass the window test, as chunks, in order.
Accepted(samples, trackId, startTime, normalizedEnd) ==
  LET Test(s) == InWindow(s, startTime, normalizedEnd)
      kept == SelectSeq(samples, Test)
  IN  [i \in 1..Len(kept) |-> EncodedChunk(kept[i], trackId)]

\* The callback releasing a batch only after the stop check and the
\* resolution.
OnSamples_ReleasesLast(w, f, c, samples) ==
  LET me == w.ex[c]
      chunks == me.chunks \o Accepted(samples, me.trackId, me.startTime, me.normalizedEnd)
      w1 == [w EXCEPT !.ex[c].chunks = chunks,
                      !.ex[c].batches = @ + 1,
                      !.ex[c].handled = @ + Len(samples),
                      !.ex[c].pastEnd =
                         @ \/ \E i \in 1..Len(samples) : PastEnd(samples[i], me.normalizedEnd),
                      !.ex[c].checkedUnreleased = @ \/ w.mp4.unreleased # << >>]
      Release(x) == IF Len(samples) > 0
                    THEN ReleaseUsedSamples(x, me.trackId, samples[Len(samples)].number)
                    ELSE x
  IN  IF Len(chunks) > 0 /\ StopCondition(chunks[Len(chunks)].timestamp, me.normalizedEnd)
      THEN LET w3 == [w1 EXCEPT !.ex[c].extractionFinished = TRUE,
                                !.ex[c].finishedAtLen =
                                   IF @ < 0 THEN Len(chunks) ELSE @]
           IN  Release(ExtractResolve(Flush(Stop(w3), f), c, chunks))
      ELSE Release(w1)

\* onSamples, the loop: the chunks of call c with the accepted samples of
\* the batch pushed.
Pushed(w, c, samples) ==
  w.ex[c].chunks
    \o Accepted(samples, w.ex[c].trackId, w.ex[c].startTime, w.ex[c].normalizedEnd)

\* onSamples, after the loop: mp4.releaseUsedSamples(trackId,
\* samples[samples.length - 1].number) if the batch is not empty.
ReleaseBatch(w, c, samples) ==
  IF Len(samples) > 0
  THEN ReleaseUsedSamples(w, w.ex[c].trackId, samples[Len(samples)].number)
  ELSE w

\* The stop check is reached: is the batch released?
ReleaseChecked(w, c) ==
  [w EXCEPT !.ex[c].checkedUnreleased = @ \/ w.mp4.unreleased # << >>]

\* onSamples, the stop check: at the end of the window extractionFinished is
\* set, the parser is stopped and flushed and the call resolves with chunks.
StopCheck(w, f, c) ==
  IF Len(w.ex[c].chunks) > 0
     /\ StopCondition(w.ex[c].chunks[Len(w.ex[c].chunks)].timestamp,
                      w.ex[c].normalizedEnd)
  THEN ExtractResolve(
         Flush(Stop([w EXCEPT !.ex[c].extractionFinished = TRUE,
                              !.ex[c].finishedAtLen =
                                 IF @ < 0 THEN Len(w.ex[c].chunks) ELSE @]),
               f),
         c, w.ex[c].chunks)
  ELSE w

\* mp4.onSamples of call c.  checkedUnreleased notes a stop check made while
\* the batch is not yet released; fedByOther notes samples pushed while the
\* pull loop of another call is feeding the parser.
OnSamples(w, f, c, samples) ==
  StopCheck(
    ReleaseChecked(
      ReleaseBatch(
        [w EXCEPT !.ex[c].chunks = Pushed(w, c, samples),
                  !.ex[c].batches = @ + 1,
                  !.ex[c].handled = @ + Len(samples),
                  !.ex[c].fedByOther =
                     @ \/ (Len(Pushed(w, c, samples)) > Len(w.ex[c].chunks)
                           /\ w.feeder \notin {0, c}),
                  !.ex[c].pastEnd =
                     @ \/ \E i \in 1..Len(samples) :
                            PastEnd(samples[i], w.ex[c].normalizedEnd)],
        c, samples),
      c),
    f, c)

\* The extraction error handler noting the error without rejecting.
OnErrorExtract_NoReject(w, c) ==
  LET me == w.ex[c]
      first == me.parseErrors = 0 /\ me.pc # "ended" /\ ~me.extractionFinished
  IN  [w EXCEPT !.ex[c].parseErrors = @ + 1,
                !.ex[c].errorBeforeStop = @ \/ first,
                !.ex[c].chunksAtError = IF first THEN Len(me.chunks) ELSE @]

\* mp4.onError of call c: reject(new Error(`Extraction error: ...`)).
OnErrorExtract(w, c) ==
  LET me == w.ex[c]
      first == me.parseErrors = 0 /\ me.pc # "ended" /\ ~me.extractionFinished
  IN  ExtractReject(
        [w EXCEPT !.ex[c].parseErrors = @ + 1,
                  !.ex[c].errorBeforeStop = @ \/ first,
                  !.ex[c].chunksAtError = IF first THEN Len(me.chunks) ELSE @],
        c, "parse")

\* ------------------------------------------------------------ load callbacks
\* The configuration boxes extractCodecDescription knows, in the order of
\* entry.avcC || entry.hvcC || entry.vpcC || entry.av1C.
ConfigBoxes == <<"avcC", "hvcC", "vpcC", "av1C">>

\* The four-character type of a configuration box, as character codes.
TypeCode(box) ==
  CASE box = "avcC" -> <<97, 118, 99, 67>>
    [] box = "hvcC" -> <<104, 118, 99, 67>>
    [] box = "vpcC" -> <<118, 112, 99, 67>>
    [] box = "av1C" -> <<97, 118, 49, 67>>

\* The content of configuration box `box` of sample-description entry i, in
\* the files of the model: bytes that tell the entries and the boxes apart.
Payload(i, box) ==
  LET k == CHOOSE x \in 1..Len(ConfigBoxes) : ConfigBoxes[x] = box
  IN  [j \in 1..k |-> 16 * i + j]

\* A 32-bit unsigned integer as DataStream.BIG_ENDIAN writes it.
BigEndian32(n) ==
  <<(n \div 16777216) % 256, (n \div 65536) % 256, (n \div 256) % 256, n % 256>>

\* box.write(stream): the size of the whole box, its type, its content.
BoxWrite(i, box) ==
  BigEndian32(BoxHeaderSize + Len(Payload(i, box))) \o TypeCode(box) \o Payload(i, box)

\* The known configuration boxes entry carries, as indices of ConfigBoxes.
KnownBoxes(entry) == {k \in 1..Len(ConfigBoxes) : ConfigBoxes[k] \in entry}

\* The description extractCodecDescription returns, by the box it is made
\* from: box `box` of entry i.
DescriptionOf(i, box) == [entry |-> i, box |-> box]

\* The bytes of description d: new Uint8Array(stream.buffer, 8), the
\* serialization of its box from byte 8 on.
DescriptionBytes(d) ==
  SubSeq(BoxWrite(d.entry, d.box), BoxHeaderSize + 1, Len(BoxWrite(d.entry, d.box)))

\* The description looked for box kind by box kind: the first kind of
\* ConfigBoxes that any entry carries, from the first entry carrying it.
ExtractCodecDescription_BoxFirst(f) ==
  LET kinds == {k \in 1..Len(ConfigBoxes) :
                  \E i \in 1..Len(f.stsd) : ConfigBoxes[k] \in f.stsd[i]}
  IN  IF kinds = {} THEN << >>
      ELSE LET k == CHOOSE x \in kinds : \A y \in kinds : x <= y
               has == {i \in 1..Len(f.stsd) : ConfigBoxes[k] \in f.stsd[i]}
               i == CHOOSE x \in has : \A y \in has : x <= y
           IN  << DescriptionOf(i, ConfigBoxes[k]) >>

\* extractCodecDescription: the box of the first sample-description entry
\* that carries a known configuration box (its bytes after the 8-byte
\* header), as <<description>>; << >> when it throws 'Codec description box
\* (avcC, hvcC, vpcC, or av1C) not found'.
ExtractCodecDescription(f) ==
  LET carrying == {i \in 1..Len(f.stsd) : KnownBoxes(f.stsd[i]) # {}}
  IN  IF carrying = {} THEN << >>
      ELSE LET i == CHOOSE x \in carrying : \A y \in carrying : x <= y
               k == CHOOSE x \in KnownBoxes(f.stsd[i]) :
                      \A y \in KnownBoxes(f.stsd[i]) : x <= y
           IN  << DescriptionOf(i, ConfigBoxes[k]) >>

\* extractTrackData: the duration, the summary of the first video track if
\* the file has one and the summary of the first audio track if it has one
\* (<<summary>>, or << >> for undefined); thrown when extractCodecDescription
\* throws.
ExtractTrackData(f) ==
  [thrown |-> Len(f.video) > 0 /\ ExtractCodecDescription(f) = << >>,
   trackData |->
     [duration |-> f.duration,
      video |-> IF Len(f.video) > 0 /\ ExtractCodecDescription(f) # << >>
                THEN << [description |-> ExtractCodecDescription(f)[1],
                         nb_samples |-> Len(f.video)] >>
                ELSE << >>,
      audio |-> IF Len(f.audio) > 0 THEN << [nb_samples |-> Len(f.audio)] >> ELSE << >>]]

\* The info object the parser hands to onReady.
Info(f) == [duration |-> f.duration, tracks |-> FileTracks(f)]

\* mp4.onReady of the loader: an exception of extractTrackData leaves the
\* callback before resolve({info, trackData, mp4}).
OnReady(w, f) ==
  LET w1 == [w EXCEPT !.ld.metadataReady = TRUE,
                      !.ld.readyAfterError = @ \/ w.ld.parseErrors > 0]
      td == ExtractTrackData(f)
  IN  IF td.thrown THEN [w1 EXCEPT !.ld.thrown = TRUE]
      ELSE LoadResolve(w1, [info |-> Info(f), trackData |-> td.trackData])

\* The load error handler noting the error without rejecting.
OnErrorLoad_NoReject(w) == [w EXCEPT !.ld.parseErrors = @ + 1]

\* mp4.onError of the loader: reject(new Error(`MP4Box parsing error: ...`)).
OnErrorLoad(w) == LoadReject([w EXCEPT !.ld.parseErrors = @ + 1], "parse")

\* ------------------------------------------------------------ the parser
\* The movie box is parsed once the file's first moovEnd units are appended.
MoovParsed(m, f) == f.moovEnd > 0 /\ (0 .. f.moovEnd - 1) \subseteq m.appended

\* appendBuffer, the bookkeeping of the feeder: feedEnd is where its last
\* buffer ended; feedOk notes that each of its buffers started where it had
\* to: the loader's first at 0, a call's first at the seek offset after its
\* seek and start, every later one at feedEnd.
Fed(w, lo, hi) ==
  IF w.feeder = 0
  THEN [w EXCEPT !.ld.feedEnd = hi,
                 !.ld.feedOk = @ /\ lo = (IF w.ld.feedEnd < 0 THEN 0 ELSE w.ld.feedEnd)]
  ELSE [w EXCEPT !.ex[w.feeder].feedEnd = hi,
                 !.ex[w.feeder].feedOk =
                    @ /\ IF w.ex[w.feeder].feedEnd < 0
                         THEN lo = w.ex[w.feeder].seekOffset
                              /\ w.ex[w.feeder].prepared = "started"
                         ELSE lo = w.ex[w.feeder].feedEnd]

\* appendBuffer, a malformed box among the units lo..hi-1: mp4.onError is
\* called, if set.
SignalError(w, f, lo, hi) ==
  IF f.errAt \in lo .. hi - 1
  THEN IF w.mp4.onError = "load"
       THEN OnErrorLoad([w EXCEPT !.mp4.errorSignalled = TRUE])
       ELSE IF w.mp4.onError = "extract"
            THEN OnErrorExtract([w EXCEPT !.mp4.errorSignalled = TRUE],
                                w.mp4.onErrorCall)
            ELSE [w EXCEPT !.mp4.errorSignalled = TRUE]
  ELSE w

\* appendBuffer, the movie box parsed for the first time: mp4.onReady is
\* called.
SignalReady(w, f) ==
  IF MoovParsed(w.mp4, f) /\ ~w.mp4.readySent
  THEN OnReady([w EXCEPT !.mp4.readySent = TRUE], f)
  ELSE w

\* appendBuffer, the end: an exception of onReady has left it; otherwise the
\* samples whose data the parser holds are processed.
DeliverAppended(w, f) ==
  IF w.ld.thrown THEN w
  ELSE IF MoovParsed(w.mp4, f) THEN ProcessSamples(w, f) ELSE w

\* mp4.appendBuffer of the units lo..hi-1: the parser reports a malformed box
\* it meets to mp4.onError, signals onReady the first time the movie box is
\* parsed, and then processes the samples whose data it holds.  An exception
\* thrown by onReady leaves appendBuffer at once.  feedEnd is where the
\* feeder's last buffer ended; feedOk notes that each of its buffers started
\* where it had to: the loader's first at 0, a call's first at the seek
\* offset after its seek and start, every later one at feedEnd.
AppendBuffer(w, f, lo, hi) ==
  DeliverAppended(
    SignalReady(
      SignalError([Fed(w, lo, hi) EXCEPT !.mp4.appended = @ \cup (lo .. hi - 1)],
                  f, lo, hi),
      f),
    f)

\* The clearing loop left out: earlier extraction options stay.
UnsetExtractionOptions_Skipped(w, f) == w

\* mp4.unsetExtractionOptions(track.id) for every track of info.tracks.
UnsetExtractionOptions(w, f) ==
  [w EXCEPT !.mp4.extracted = SelectSeq(@, LAMBDA e : e.id \notin FileTracks(f))]

\* mp4.setExtractionOptions(trackId, null, {nbSamples}).
SetExtractionOptions(w, trackId, nbSamples) ==
  [w EXCEPT !.mp4.extracted =
               Append(@, [id |-> trackId, nb_samples |-> nbSamples, samples |-> << >>]),
            !.mp4.nextSample[trackId] = 0]

\* The sample (index from 1) mp4.seek(time, true) moves a track to: the last
\* sync sample before the first sample whose cts is past `time`.
SeekSample(tbl, time) ==
  LET past == {j \in 2..Len(tbl) : tbl[j].cts * TicksPerSecond > time * tbl[j].timescale}
      b == IF past = {} THEN Len(tbl) + 1 ELSE CHOOSE j \in past : \A i \in past : j <= i
      raps == {1} \cup {j \in 1..(b - 1) : tbl[j].is_sync}
  IN  CHOOSE j \in raps : \A i \in raps : i <= j

\* The offset mp4.seek returns: the least data position of the tracks' seek samples.
SeekOffset(f, time) ==
  LET offs == {f[tt][SeekSample(f[tt], time)].pos : tt \in FileTracks(f)}
  IN  CHOOSE o \in offs : \A x \in offs : o <= x

\* mp4.seek(time, true): every track is moved to its seek sample.
Seek(w, f, time) ==
  [w EXCEPT !.mp4.nextSample =
               [tt \in TrackTypes |->
                  IF tt \in FileTracks(f) THEN SeekSample(f[tt], time) - 1 ELSE @[tt]]]

\* mp4.start().
Start(w, f) == ProcessSamples([w EXCEPT !.mp4.started = TRUE], f)

\* ------------------------------------------------------------ parseMP4Metadata
\* The end-of-source check never throwing.
MetadataMissing_NeverThrows(metadataReady) == FALSE

\* if (!metadataReady) throw new Error("Invalid MP4 file: metadata not available")
MetadataMissing(metadataReady) == ~metadataReady

\* The loader's await reader.read(): one more read is asked of the source.
LoadIssueRead(w) ==
  [w EXCEPT !.ld.pc = "reading",
            !.ld.reads = @ + 1,
            !.ld.readsAfterReady = IF w.ld.metadataReady THEN @ + 1 ELSE @,
            !.ld.readsAfterError = IF w.ld.parseErrors > 0 THEN @ + 1 ELSE @]

\* The loader's pull loop is over.
LoadEnd(w) == [w EXCEPT !.ld.pc = "ended"]

\* readNextChunk at the end of the source: flush, then the check that the
\* metadata were seen.
AtEndOfSource(w) ==
  IF MetadataMissing(w.ld.metadataReady)
  THEN LoadEnd(LoadReject(w, "invalid"))
  ELSE LoadEnd(w)

\* readNextChunk after mp4.appendBuffer: an exception of onReady is caught and
\* rejects; otherwise the next read is asked for, or the source is at its
\* end.
AfterAppend(w, f) ==
  IF w.ld.thrown
  THEN LoadEnd(LoadReject([w EXCEPT !.ld.thrown = FALSE], "config"))
  ELSE IF w.ld.offset < f.size
  THEN LoadIssueRead(w)
  ELSE AtEndOfSource(Flush(w, f))

\* readNextChunk from the completion of reader.read() to the next await or
\* the end of the loop; n is the length of the chunk the source delivers.
ReadNextChunk(w, f, n) ==
  IF w.ld.offset >= f.size
  THEN IF MetadataMissing(w.ld.metadataReady)
       THEN LoadEnd(LoadReject(w, "invalid"))
       ELSE LoadEnd(Flush(w, f))
  ELSE IF w.ld.metadataReady
       THEN LoadEnd(Flush([w EXCEPT !.ld.locked = FALSE], f))
       ELSE AfterAppend(
              AppendBuffer(
                [w EXCEPT !.ld.offset = w.ld.offset + Min(n, f.size - w.ld.offset),
                          !.ld.appendsAfterError =
                             IF w.ld.parseErrors > 0 THEN @ + 1 ELSE @],
                f, w.ld.offset, w.ld.offset + Min(n, f.size - w.ld.offset)),
              f)

\* parseMP4Metadata up to its first await: the reader is taken, the parser's
\* callbacks are set and the first read is asked for.
ParseMP4Metadata(w) ==
  LoadIssueRead([w EXCEPT !.ld.locked = TRUE, !.ld.promise = "pending",
                          !.mp4.onError = "load"])

\* ------------------------------------------------------------ extractEncodedSegment
\* The track selection falling back to the file's first track.
SelectedTrack_FallsBack(f, trackType) ==
  IF Len(f[trackType]) > 0 THEN trackType
  ELSE IF FileTracks(f) # {} THEN CHOOSE tt \in FileTracks(f) : TRUE
  ELSE "none"

\* info.audioTracks[0] ?? null, or info.videoTracks[0] ?? null.
SelectedTrack(f, trackType) == IF Len(f[trackType]) > 0 THEN trackType ELSE "none"

\* The end of the window taken from endTime alone, without the cap at
\* maxDuration.
NormalizedEnd_Unclamped(f, endTime) ==
  LET maxDuration == f.duration - DURATION_BUFFER
  IN  IF endTime # 0 THEN endTime ELSE maxDuration

\* Math.min(endTime || maxDuration, maxDuration), in ticks.
NormalizedEnd(f, endTime) ==
  LET maxDuration == f.duration - DURATION_BUFFER
  IN  Min(IF endTime # 0 THEN endTime ELSE maxDuration, maxDuration)

\* The pull loop stopping at the end of the source only.
FeedStops_OnlyWhenDone(done, extractionFinished) == done

\* if (done || extractionFinished): the pull loop stops feeding.
FeedStops(done, extractionFinished) == done \/ extractionFinished

\* The extractor's await contentReader.read().
ExtractIssueRead(w, c) ==
  [w EXCEPT !.ex[c].pc = "reading",
            !.ex[c].reads = @ + 1,
            !.ex[c].readsAfterError = IF w.ex[c].parseErrors > 0 THEN @ + 1 ELSE @]

\* readNextSegment stamping a buffer with its position in the sliced stream,
\* not in the file.
ReadNextSegment_StreamPosition(w, f, c, n) ==
  LET me == w.ex[c]
      done == me.fileOffset >= f.size
  IN  IF FeedStops(done, me.extractionFinished)
      THEN [Flush([w EXCEPT !.ex[c].locked = FALSE], f) EXCEPT !.ex[c].pc = "ended"]
      ELSE
        LET lo == me.fileOffset
            hi == lo + Min(n, f.size - lo)
            w1 == [w EXCEPT !.ex[c].fileOffset = hi,
                            !.ex[c].appends = @ + 1,
                            !.ex[c].appendsAfterFinished =
                               IF me.extractionFinished THEN @ + 1 ELSE @,
                            !.ex[c].appendsAfterError =
                               IF me.parseErrors > 0 THEN @ + 1 ELSE @]
        IN  ExtractIssueRead(AppendBuffer([w1 EXCEPT !.feeder = c], f,
                                          lo - me.seekOffset, hi - me.seekOffset), c)

\* readNextSegment of call c from the completion of contentReader.read() to
\* the next await or the end of the loop.
ReadNextSegment(w, f, c, n) ==
  LET me == w.ex[c]
      done == me.fileOffset >= f.size
  IN  IF FeedStops(done, me.extractionFinished)
      THEN [Flush([w EXCEPT !.ex[c].locked = FALSE], f) EXCEPT !.ex[c].pc = "ended"]
      ELSE
        LET lo == me.fileOffset
            hi == lo + Min(n, f.size - lo)
            w1 == [w EXCEPT !.ex[c].fileOffset = hi,
                            !.ex[c].appends = @ + 1,
                            !.ex[c].appendsAfterFinished =
                               IF me.extractionFinished THEN @ + 1 ELSE @,
                            !.ex[c].appendsAfterError =
                               IF me.parseErrors > 0 THEN @ + 1 ELSE @]
        IN  ExtractIssueRead(AppendBuffer([w1 EXCEPT !.feeder = c], f, lo, hi), c)

\* extractEncodedSegment leaving in place an onSamples handler that an
\* earlier call has set.
ExtractEncodedSegment_KeepsHandler(w, f, c, trackType, startTime, endTime) ==
  LET selectedTrack == SelectedTrack(f, trackType)
      w0 == [w EXCEPT !.ex[c] = [NoCall EXCEPT !.trackType = trackType,
                                                !.startTime = startTime,
                                                !.endTime = endTime,
                                                !.promise = "pending"]]
  IN  IF selectedTrack = "none"
      THEN [ExtractResolve(w0, c, << >>) EXCEPT !.ex[c].pc = "ended"]
      ELSE
        LET w1 == [w0 EXCEPT !.ex[c].trackId = selectedTrack,
                             !.ex[c].normalizedEnd = NormalizedEnd(f, endTime)]
            w2 == UnsetExtractionOptions(w1, f)
            w3 == [w2 EXCEPT !.mp4.onSamples = IF @ = 0 THEN c ELSE @,
                             !.mp4.onError = "extract",
                             !.mp4.onErrorCall = c]
            w4 == SetExtractionOptions(w3, selectedTrack, CHUNK_SIZE)
            w5 == Seek(w4, f, startTime)
            w6 == [w5 EXCEPT !.ex[c].seekSample = w5.mp4.nextSample[selectedTrack],
                             !.ex[c].seekOffset = SeekOffset(f, startTime),
                             !.ex[c].prepared = "sought",
                             !.ex[c].locked = TRUE,
                             !.ex[c].fileOffset = SeekOffset(f, startTime)]
            w7 == [w6 EXCEPT !.ex[c].prepared =
                                IF @ = "sought" /\ w6.ex[c].feedEnd < 0
                                THEN "started" ELSE @]
        IN  ExtractIssueRead(Start(w7, f), c)

\* extractEncodedSegment of call c up to its first await.
ExtractEncodedSegment(w, f, c, trackType, startTime, endTime) ==
  LET selectedTrack == SelectedTrack(f, trackType)
      w0 == [w EXCEPT !.ex[c] = [NoCall EXCEPT !.trackType = trackType,
                                                !.startTime = startTime,
                                                !.endTime = endTime,
                                                !.promise = "pending"]]
  IN  IF selectedTrack = "none"
      THEN [ExtractResolve(w0, c, << >>) EXCEPT !.ex[c].pc = "ended"]
      ELSE
        LET w1 == [w0 EXCEPT !.ex[c].trackId = selectedTrack,
                             !.ex[c].normalizedEnd = NormalizedEnd(f, endTime)]
            w2 == UnsetExtractionOptions(w1, f)
            w3 == [w2 EXCEPT !.mp4.onSamples = c,
                             !.mp4.onError = "extract",
                             !.mp4.onErrorCall = c]
            w4 == SetExtractionOptions(w3, selectedTrack, CHUNK_SIZE)
            w5 == Seek(w4, f, startTime)
            w6 == [w5 EXCEPT !.ex[c].seekSample = w5.mp4.nextSample[selectedTrack],
                             !.ex[c].seekOffset = SeekOffset(f, startTime),
                             !.ex[c].prepared = "sought",
                             !.ex[c].locked = TRUE,
                             !.ex[c].fileOffset = SeekOffset(f, startTime)]
            w7 == [w6 EXCEPT !.ex[c].prepared =
                                IF @ = "sought" /\ w6.ex[c].feedEnd < 0
                                THEN "started" ELSE @]
        IN  ExtractIssueRead(Start(w7, f), c)

\* ------------------------------------------------------------ actions
Commit(w) ==
  /\ mp4' = w.mp4
  /\ ld' = w.ld
  /\ ex' = w.ex

\* The caller calls load().
Load ==
  /\ ld.pc = "idle"
  /\ Commit(ParseMP4Metadata(World))
  /\ UNCHANGED <<browser, renderer, file, mp4Data, nCalls, got, again, loaded, listing, storage, decoder, muxer>>

\* A read of the loader completes with the next chunk or with done.
LoadOnRead ==
  /\ ld.pc = "reading"
  /\ \E n \in ChunkSizes :
       Commit(ReadNextChunk(
         [World EXCEPT !.ld.stepsAfterResolve =
                          IF ld.promise = "resolved" THEN @ + 1 ELSE @,
                       !.ld.stepsAfterExtract =
                          IF \E c \in Calls : ex[c].promise \in {"pending", "resolved"}
                          THEN @ + 1 ELSE @], file, n))
  /\ UNCHANGED <<browser, renderer, file, mp4Data, nCalls, got, again, loaded, listing, storage, decoder, muxer>>

\* A read of the loader fails: catch (error) { reject(error) }.  ioPending
\* notes a failure that finds the call unsettled.
LoadReadError ==
  /\ ld.pc = "reading"
  /\ Commit(LoadEnd(LoadReject(
       [World EXCEPT !.ld.ioFailed = TRUE,
                     !.ld.ioPending = (ld.promise = "pending")], "io")))
  /\ UNCHANGED <<browser, renderer, file, mp4Data, nCalls, got, again, loaded, listing, storage, decoder, muxer>>

\* load() resumes after its await: this.mp4Data = ...
LoadContinuation ==
  /\ ld.promise = "resolved"
  /\ loaded.returned[1] = "no"
  /\ mp4Data' = TRUE
  /\ loaded' = [loaded EXCEPT !.from = 1, !.returned[1] = "ok"]
  /\ UNCHANGED <<browser, renderer, file, mp4, ld, ex, nCalls, got, again, listing, storage, decoder, muxer>>

\* The caller calls extractSegment before any load() has completed.
ExtractNotLoaded ==
  /\ ~mp4Data
  /\ nCalls < MaxCalls
  /\ nCalls' = nCalls + 1
  /\ ex' = [ex EXCEPT ![nCalls + 1] =
               [NoCall EXCEPT !.pc = "ended", !.promise = "rejected",
                              !.error = "notLoaded"]]
  /\ UNCHANGED <<browser, renderer, file, mp4, ld, mp4Data, got, again, loaded, listing, storage, decoder, muxer>>

\* The caller calls extractSegment(trackType, startTime, endTime) with a
\* window of wins.
ExtractSegmentIn(wins) ==
  /\ mp4Data
  /\ nCalls < MaxCalls
  /\ nCalls' = nCalls + 1
  /\ \E trackType \in TrackTypes, win \in wins :
       Commit(ExtractEncodedSegment(World, file, nCalls + 1, trackType, win[1], win[2]))
  /\ UNCHANGED <<browser, renderer, file, mp4Data, got, again, loaded, listing, storage, decoder, muxer>>

\* The caller calls extractSegment(trackType, startTime, endTime).
ExtractSegment == ExtractSegmentIn(Windows)

\* The caller calls extractSegment over a whole track.
ExtractWholeTrack == ExtractSegmentIn(TrackWindows(file))

\* A read of call c completes with the next chunk or with done.
ExtractOnRead(c) ==
  /\ ex[c].pc = "reading"
  /\ \E n \in ChunkSizes : Commit(ReadNextSegment(World, file, c, n))
  /\ UNCHANGED <<browser, renderer, file, mp4Data, nCalls, got, again, loaded, listing, storage, decoder, muxer>>

\* A failed read of call c rejecting with an extraction error made from the
\* source's error.
ExtractReadError_Wrapped(c) ==
  /\ ex[c].pc = "reading"
  /\ Commit([ExtractReject(
               [World EXCEPT !.ex[c].ioPending = (ex[c].promise = "pending")],
               c, "parse") EXCEPT !.ex[c].pc = "ended"])
  /\ UNCHANGED <<browser, renderer, file, mp4Data, nCalls, got, again, loaded, listing, storage, decoder, muxer>>

\* A read of call c fails: catch (error) { reject(error) }.  ioPending notes
\* a failure that finds the call unsettled.
ExtractReadError(c) ==
  /\ ex[c].pc = "reading"
  /\ Commit([ExtractReject(
               [World EXCEPT !.ex[c].ioPending = (ex[c].promise = "pending")],
               c, "io") EXCEPT !.ex[c].pc = "ended"])
  /\ UNCHANGED <<browser, renderer, file, mp4Data, nCalls, got, again, loaded, listing, storage, decoder, muxer>>

\* ------------------------------------------------------------ a second load()
\* The state a segment of the second load() works on: its own parser and
\* closure.
WorldAgain == [mp4 |-> again.mp4, ld |-> again.ld, ex |-> ex, feeder |-> 0]

CommitAgain(w) ==
  /\ again' = [mp4 |-> w.mp4, ld |-> w.ld]
  /\ ex' = w.ex

\* The state a segment works on when it feeds the parser of load() number h.
WorldOf(h) == IF h = 2 THEN WorldAgain ELSE World

\* The assignments of a segment that worked on the parser of load() number h.
CommitTo(h, w) ==
  IF h = 2 THEN CommitAgain(w) /\ UNCHANGED <<mp4, ld>>
  ELSE Commit(w) /\ UNCHANGED again

\* A read of the loader of load() number h completes with the next chunk or
\* with done.
LoadOnReadOf(h) ==
  /\ WorldOf(h).ld.pc = "reading"
  /\ \E n \in ChunkSizes : CommitTo(h, ReadNextChunk(WorldOf(h), file, n))
  /\ UNCHANGED <<browser, renderer, file, mp4Data, nCalls, got, loaded, listing, storage, decoder, muxer>>

\* The caller calls load() a second time.
Reload ==
  /\ ld.pc # "idle"
  /\ again.ld.pc = "idle"
  /\ CommitAgain(ParseMP4Metadata(WorldAgain))
  /\ UNCHANGED <<browser, renderer, file, mp4, ld, mp4Data, nCalls, got, loaded, listing, storage, decoder, muxer>>

\* A read of the second loader fails: catch (error) { reject(error) }.
ReloadReadError ==
  /\ again.ld.pc = "reading"
  /\ CommitAgain(LoadEnd(LoadReject(
       [WorldAgain EXCEPT !.ld.ioFailed = TRUE,
                          !.ld.ioPending = (again.ld.promise = "pending")], "io")))
  /\ UNCHANGED <<browser, renderer, file, mp4, ld, mp4Data, nCalls, got, loaded, listing, storage, decoder, muxer>>

\* The second load() resumes after its await: this.mp4Data = ...
ReloadContinuation ==
  /\ again.ld.promise = "resolved"
  /\ loaded.returned[2] = "no"
  /\ mp4Data' = TRUE
  /\ loaded' = [loaded EXCEPT !.from = 2, !.returned[2] = "ok"]
  /\ UNCHANGED <<browser, renderer, file, mp4, ld, ex, nCalls, got, again, listing, storage, decoder, muxer>>

\* The parseMP4Metadata call of load() number h.
LoadOf(h) == IF h = 2 THEN again.ld ELSE ld

\* A failed load() forgetting the metadata of an earlier one.
LoadFailed_Unloads(h) ==
  /\ LoadOf(h).promise = "rejected"
  /\ loaded.returned[h] = "no"
  /\ loaded' = [loaded EXCEPT !.from = 0, !.returned[h] = "threw"]
  /\ mp4Data' = FALSE
  /\ UNCHANGED <<browser, renderer, file, mp4, ld, ex, nCalls, got, again, listing, storage, decoder, muxer>>

\* load() number h resumes after its await with the rejection: the await
\* throws, nothing is assigned, and the caller gets the error.
LoadFailed(h) ==
  /\ LoadOf(h).promise = "rejected"
  /\ loaded.returned[h] = "no"
  /\ loaded' = [loaded EXCEPT !.returned[h] = "threw"]
  /\ UNCHANGED <<browser, renderer, file, mp4, ld, mp4Data, ex, nCalls, got, again, listing, storage, decoder, muxer>>

\* The caller calls extractSegment(trackType, startTime, endTime) on a
\* demuxer that may have been loaded twice: extractEncodedSegment gets
\* this.mp4Data, the parser of the load() it is from.
ExtractSegmentHeld ==
  /\ mp4Data
  /\ nCalls < MaxCalls
  /\ nCalls' = nCalls + 1
  /\ \E trackType \in TrackTypes :
       CommitTo(loaded.from,
                [ExtractEncodedSegment(WorldOf(loaded.from), file, nCalls + 1,
                                       trackType, 0, 0)
                   EXCEPT !.ex[nCalls + 1].parser = loaded.from])
  /\ UNCHANGED <<browser, renderer, file, mp4Data, got, loaded, listing, storage, decoder, muxer>>

\* A read of call c completes; the call feeds the parser it was given.
ExtractOnReadHeld(c) ==
  /\ ex[c].pc = "reading"
  /\ \E n \in ChunkSizes :
       CommitTo(ex[c].parser, ReadNextSegment(WorldOf(ex[c].parser), file, c, n))
  /\ UNCHANGED <<browser, renderer, file, mp4Data, nCalls, got, loaded, listing, storage, decoder, muxer>>

\* ------------------------------------------------------------ getters
\* The parseMP4Metadata call whose value this.mp4Data is.
Held == IF loaded.from = 2 THEN again.ld ELSE ld

\* getTracks reading this.mp4Data without the check.
GetTracks_Unguarded ==
  IF mp4Data THEN [threw |-> "none", value |-> <<Held.value[1].trackData>>]
  ELSE [threw |-> "typeError", value |-> << >>]

\* getTracks(): throws 'Must call load() before getTracks()' or returns
\* this.mp4Data.trackData.
GetTracks ==
  IF ~mp4Data THEN [threw |-> "notLoaded", value |-> << >>]
  ELSE [threw |-> "none", value |-> <<Held.value[1].trackData>>]

\* getVideoTrack(): this.getTracks().video.
GetVideoTrack ==
  IF GetTracks.threw # "none" THEN GetTracks
  ELSE [threw |-> "none", value |-> <<GetTracks.value[1].video>>]

\* getAudioTrack(): this.getTracks().audio.
GetAudioTrack ==
  IF GetTracks.threw # "none" THEN GetTracks
  ELSE [threw |-> "none", value |-> <<GetTracks.value[1].audio>>]

\* getVideoDecoderConfig(): this.getVideoTrack().
GetVideoDecoderConfig == GetVideoTrack

\* getAudioDecoderConfig(): this.getAudioTrack().
GetAudioDecoderConfig == GetAudioTrack

\* getInfo(): throws 'Must call load() before getInfo()' or returns
\* this.mp4Data.info.
GetInfo ==
  IF ~mp4Data THEN [threw |-> "notLoaded", value |-> << >>]
  ELSE [threw |-> "none", value |-> <<Held.value[1].info>>]

Getters ==
  {"getTracks", "getVideoTrack", "getAudioTrack", "getVideoDecoderConfig",
   "getAudioDecoderConfig", "getInfo"}

\* Where load() stands: never called, pending, failed, or its metadata promise
\* resolved.
LoadState ==
  IF ld.pc = "idle" THEN "never"
  ELSE IF ld.promise = "rejected" THEN "failed"
  ELSE IF ld.promise = "pending" THEN "pending"
  ELSE "resolved"

\* The caller calls a getter.
Get(op) ==
  LET r == CASE op = "getTracks" -> GetTracks
             [] op = "getVideoTrack" -> GetVideoTrack
             [] op = "getAudioTrack" -> GetAudioTrack
             [] op = "getVideoDecoderConfig" -> GetVideoDecoderConfig
             [] op = "getAudioDecoderConfig" -> GetAudioDecoderConfig
             [] op = "getInfo" -> GetInfo
  IN  /\ got' = [op |-> op, at |-> LoadState, threw |-> r.threw, value |-> r.value]
      /\ UNCHANGED <<browser, renderer, file, mp4, ld, mp4Data, ex, nCalls, again, loaded, listing, storage, decoder, muxer>>

\* ------------------------------------------------------------ track lists
\* The `audio` member of an audio track, in the track lists of the model: not
\* there (<< >>), or a sample entry whose sample_rate and channel_count are
\* each a number (<<n>>) or not there.
AudioEntries ==
  { << >>,
    << [sample_rate |-> << >>, channel_count |-> << >>] >>,
    << [sample_rate |-> <<0>>, channel_count |-> << >>] >>,
    << [sample_rate |-> <<8>>, channel_count |-> <<1>>] >>,
    << [sample_rate |-> << >>, channel_count |-> <<6>>] >> }

\* The tracks of the model: video tracks of two codecs, audio tracks of two
\* timescales with any of the sample entries.
TrackKinds ==
  [type : {"video"}, codec : {"avc1", "hvc1"}, timescale : {30}, audio : {<< >>}]
    \cup [type : {"audio"}, codec : {"mp4a"}, timescale : {3, 5}, audio : AudioEntries]

\* The track lists of the model; a track's id is its place in the list.
TrackLists ==
  UNION {[1..n -> TrackKinds] : n \in 0..MaxTracks}

\* info.videoTracks and info.audioTracks: the places of the tracks of a type,
\* in track order.
TracksOfType(tracks, type) ==
  SelectSeq([i \in 1..Len(tracks) |-> i], LAMBDA i : tracks[i].type = type)

\* a ?? b on an optional number.
OrElse(a, b) == IF a # << >> THEN a[1] ELSE b

\* a || b on an optional number.
OrElse_Falsy(a, b) == IF a # << >> /\ a[1] # 0 THEN a[1] ELSE b

\* The audio summary with || in the place of ??.
AudioSummary_Falsy(tracks) ==
  LET audioTracks == TracksOfType(tracks, "audio")
  IN  IF Len(audioTracks) > 0
      THEN LET audioTrack == tracks[audioTracks[1]]
               entry == audioTrack.audio
           IN  << [codec |-> audioTrack.codec,
                   sampleRate |->
                     IF entry = << >> THEN audioTrack.timescale
                     ELSE OrElse_Falsy(entry[1].sample_rate, audioTrack.timescale),
                   numberOfChannels |->
                     IF entry = << >> THEN DefaultChannels
                     ELSE OrElse_Falsy(entry[1].channel_count, DefaultChannels)] >>
      ELSE << >>

\* extractTrackData, the audio track: audioTrack.audio?.sample_rate ??
\* audioTrack.timescale and audioTrack.audio?.channel_count ?? 2 of
\* info.audioTracks[0].
AudioSummary(tracks) ==
  LET audioTracks == TracksOfType(tracks, "audio")
  IN  IF Len(audioTracks) > 0
      THEN LET audioTrack == tracks[audioTracks[1]]
               entry == audioTrack.audio
           IN  << [codec |-> audioTrack.codec,
                   sampleRate |->
                     IF entry = << >> THEN audioTrack.timescale
                     ELSE OrElse(entry[1].sample_rate, audioTrack.timescale),
                   numberOfChannels |->
                     IF entry = << >> THEN DefaultChannels
                     ELSE OrElse(entry[1].channel_count, DefaultChannels)] >>
      ELSE << >>

\* extractTrackData, the video track: the codec of info.videoTracks[0] (the
\* other members of the summary are taken from the same track).
VideoSummary(tracks) ==
  LET videoTracks == TracksOfType(tracks, "video")
  IN  IF Len(videoTracks) > 0
      THEN << [codec |-> tracks[videoTracks[1]].codec, track |-> videoTracks[1]] >>
      ELSE << >>

\* extractTrackData is called with the track list.
ExtractTrackDataOfList ==
  /\ listing.trackData = << >>
  /\ listing' = [listing EXCEPT !.trackData =
                   << [video |-> VideoSummary(listing.tracks),
                       audio |-> AudioSummary(listing.tracks)] >>]
  /\ UNCHANGED <<file, mp4, ld, mp4Data, ex, nCalls, got, browser, renderer, again,
                 loaded, storage, decoder, muxer>>

\* extractEncodedSegment picks its track: info.audioTracks[0] ?? null or
\* info.videoTracks[0] ?? null, as the id of the track (0 for null).
SelectTrack(trackType) ==
  /\ listing.selected = << >>
  /\ listing' = [listing EXCEPT !.selected =
                   << [trackType |-> trackType,
                       id |-> IF Len(TracksOfType(listing.tracks, trackType)) > 0
                              THEN TracksOfType(listing.tracks, trackType)[1]
                              ELSE 0] >>]
  /\ UNCHANGED <<file, mp4, ld, mp4Data, ex, nCalls, got, browser, renderer, again,
                 loaded, storage, decoder, muxer>>

\* ------------------------------------------------------------ InMemoryStorage
\* The chunk sizes the storages of the model are constructed with.
StorageChunkSizes == {2, 3}

\* The positions the model follows.
Positions == 0..(MaxPosition + MaxLength)

Max(a, b) == IF a > b THEN a ELSE b

\* new InMemoryStorage(chunkSize): no chunks, size 0.  chunks maps a chunk
\* index to the chunk's bytes.  writes counts the write calls; latest is, for
\* every position, the byte of the most recent write covering it (0: none);
\* top is the largest position + length of a write; overlapped and spanned
\* note a write over written bytes and a write into three chunks.
NewStorage(chunkSize) ==
  [pc |-> "made", chunkSize |-> chunkSize, chunks |-> << >>, size |-> 0,
   blob |-> << >>, writes |-> 0, latest |-> [p \in Positions |-> 0], top |-> 0,
   covered |-> {}, overlapped |-> FALSE, spanned |-> FALSE]

\* The data of write number k, of a length: bytes that tell the write and
\* the place in the data.
DataOf(k, length) == [i \in 1..length |-> 10 * k + i]

\* The copy taking the data from its start in every chunk.
CopyInto_FromStart(chunk, data, targetOffset, sourceOffset, overlapSize) ==
  [j \in 1..Len(chunk) |->
     IF targetOffset <= j - 1 /\ j - 1 < targetOffset + overlapSize
     THEN data[(j - 1 - targetOffset) + 1]
     ELSE chunk[j]]

\* for (i = 0; i < overlapSize; i++) chunk[targetOffset + i] =
\* data[sourceOffset + i]
CopyInto(chunk, data, targetOffset, sourceOffset, overlapSize) ==
  [j \in 1..Len(chunk) |->
     IF targetOffset <= j - 1 /\ j - 1 < targetOffset + overlapSize
     THEN data[sourceOffset + (j - 1 - targetOffset) + 1]
     ELSE chunk[j]]

\* One round of the loop of write over the affected chunks.
WriteChunk(chunks, chunkSize, data, position, chunkIndex) ==
  LET chunkStart == chunkIndex * chunkSize
      chunkEnd == chunkStart + chunkSize
      overlapStart == Max(position, chunkStart)
      overlapEnd == Min(position + Len(data), chunkEnd)
      overlapSize == overlapEnd - overlapStart
      chunk == IF chunkIndex \in DOMAIN chunks THEN chunks[chunkIndex]
               ELSE [j \in 1..chunkSize |-> 0]
  IN  IF overlapSize <= 0 THEN chunks
      ELSE [i \in DOMAIN chunks \cup {chunkIndex} |->
              IF i = chunkIndex
              THEN CopyInto(chunk, data, overlapStart - chunkStart,
                            overlapStart - position, overlapSize)
              ELSE chunks[i]]

\* The loop of write: chunkIndex from startChunkIndex to endChunkIndex.
RECURSIVE WriteChunks(_, _, _, _, _, _)
WriteChunks(chunks, chunkSize, data, position, chunkIndex, endChunkIndex) ==
  IF chunkIndex > endChunkIndex THEN chunks
  ELSE WriteChunks(WriteChunk(chunks, chunkSize, data, position, chunkIndex),
                   chunkSize, data, position, chunkIndex + 1, endChunkIndex)

\* write(data, position) on storage st.
Write(st, data, position) ==
  LET startChunkIndex == position \div st.chunkSize
      endChunkIndex == (position + Len(data) - 1) \div st.chunkSize
      range == {p \in Positions : position <= p /\ p < position + Len(data)}
  IN  [st EXCEPT
         !.size = Max(st.size, position + Len(data)),
         !.chunks = WriteChunks(st.chunks, st.chunkSize, data, position,
                                startChunkIndex, endChunkIndex),
         !.blob = << >>,
         !.writes = @ + 1,
         !.latest = [p \in Positions |->
                       IF p \in range THEN data[p - position + 1] ELSE @[p]],
         !.top = IF position + Len(data) > @ THEN position + Len(data) ELSE @,
         !.covered = @ \cup range,
         !.overlapped = @ \/ (st.covered \cap range # {}),
         !.spanned = @ \/ (endChunkIndex - startChunkIndex >= 2)]

\* The indices of a set in increasing order.
RECURSIVE Sorted(_)
Sorted(indices) ==
  IF indices = {} THEN << >>
  ELSE LET least == CHOOSE i \in indices : \A j \in indices : i <= j
       IN  <<least>> \o Sorted(indices \ {least})

\* The bytes of the chunks at indices[from..], the last one cut to the bytes
\* below size when those are fewer than a chunk.
RECURSIVE BlobChunks(_, _, _)
BlobChunks(st, indices, i) ==
  IF i > Len(indices) THEN << >>
  ELSE LET chunkIndex == indices[i]
           chunk == st.chunks[chunkIndex]
           remainingBytes == st.size - chunkIndex * st.chunkSize
       IN  IF i = Len(indices) /\ remainingBytes < st.chunkSize
           THEN SubSeq(chunk, 1, remainingBytes)
           ELSE chunk \o BlobChunks(st, indices, i + 1)

\* toBlob(): the bytes of the Blob.
ToBlobBytes(st) ==
  IF DOMAIN st.chunks = {} THEN << >>
  ELSE BlobChunks(st, Sorted(DOMAIN st.chunks), 1)

\* The caller constructs the storage.
StorageConstructor ==
  /\ storage.pc = "none"
  /\ \E chunkSize \in StorageChunkSizes : storage' = NewStorage(chunkSize)
  /\ UNCHANGED <<file, mp4, ld, mp4Data, ex, nCalls, got, browser, renderer, again,
                 loaded, listing, decoder, muxer>>

\* The caller calls write(data, position).
StorageWrite ==
  /\ storage.pc = "made"
  /\ storage.writes < MaxWrites
  /\ \E position \in 0..MaxPosition, length \in 0..MaxLength :
       storage' = Write(storage, DataOf(storage.writes + 1, length), position)
  /\ UNCHANGED <<file, mp4, ld, mp4Data, ex, nCalls, got, browser, renderer, again,
                 loaded, listing, decoder, muxer>>

\* The caller calls toBlob().
StorageToBlob ==
  /\ storage.pc = "made"
  /\ storage.blob = << >>
  /\ storage' = [storage EXCEPT !.blob = <<ToBlobBytes(storage)>>]
  /\ UNCHANGED <<file, mp4, ld, mp4Data, ex, nCalls, got, browser, renderer, again,
                 loaded, listing, decoder, muxer>>

\* ------------------------------------------------------------ MP3Decoder
\* new MP3Decoder(): isReady false, decoder undefined (0).  workers are the
\* MPEGDecoderWebWorker objects created, in order; calls are the calls made,
\* in order, each with the worker it waits on; destroyCalled notes a call of
\* destroy().
NewDecoder ==
  [pc |-> "made", isReady |-> FALSE, decoder |-> 0, workers |-> << >>,
   calls |-> << >>, destroyCalled |-> FALSE]

\* initialize() up to its await on a decoder that is not ready: a worker is
\* created and stored in this.decoder.
CreateWorker(d) ==
  [d EXCEPT !.workers = Append(@, [freed |-> FALSE]),
            !.decoder = Len(d.workers) + 1]

\* The caller calls initialize().
Initialize ==
  /\ decoder.pc = "made"
  /\ Len(decoder.calls) < MaxDecoderCalls
  /\ decoder' =
       IF decoder.isReady
       THEN [decoder EXCEPT !.calls = Append(@, [op |-> "initialize", pc |-> "done",
                                                 worker |-> 0, upTo |-> 0])]
       ELSE [CreateWorker(decoder) EXCEPT
               !.calls = Append(@, [op |-> "initialize", pc |-> "awaitReady",
                                    worker |-> Len(decoder.workers) + 1, upTo |-> 0])]
  /\ UNCHANGED <<file, mp4, ld, mp4Data, ex, nCalls, got, browser, renderer, again,
                 loaded, listing, storage, muxer>>

\* The caller calls toSamples(mp3Buffer): `await this.initialize()` on a
\* decoder that is not ready, this.decoder.decode(...) otherwise.
ToSamples ==
  /\ decoder.pc = "made"
  /\ Len(decoder.calls) < MaxDecoderCalls
  /\ decoder' =
       IF decoder.isReady
       THEN [decoder EXCEPT !.calls = Append(@, [op |-> "toSamples", pc |-> "decoding",
                                                 worker |-> decoder.decoder, upTo |-> 0])]
       ELSE [CreateWorker(decoder) EXCEPT
               !.calls = Append(@, [op |-> "toSamples", pc |-> "awaitReady",
                                    worker |-> Len(decoder.workers) + 1, upTo |-> 0])]
  /\ UNCHANGED <<file, mp4, ld, mp4Data, ex, nCalls, got, browser, renderer, again,
                 loaded, listing, storage, muxer>>

\* The worker call c waits on is ready (a freed worker never gets ready):
\* this.isReady = true; initialize() returns, and toSamples goes on to this.decoder.decode(...), which throws a
\* TypeError when this.decoder is null.
OnWorkerReady(c) ==
  /\ decoder.pc = "made"
  /\ c \in 1..Len(decoder.calls)
  /\ decoder.calls[c].pc = "awaitReady"
  /\ ~decoder.workers[decoder.calls[c].worker].freed
  /\ decoder' =
       [decoder EXCEPT
          !.isReady = TRUE,
          !.calls[c].pc = IF decoder.calls[c].op = "initialize" THEN "done"
                          ELSE IF decoder.decoder = 0 THEN "threw"
                          ELSE "decoding",
          !.calls[c].worker = IF decoder.calls[c].op = "initialize" THEN @
                              ELSE decoder.decoder]
  /\ UNCHANGED <<file, mp4, ld, mp4Data, ex, nCalls, got, browser, renderer, again,
                 loaded, listing, storage, muxer>>

\* The decode of call c settles.
OnDecoded(c) ==
  /\ decoder.pc = "made"
  /\ c \in 1..Len(decoder.calls)
  /\ decoder.calls[c].pc = "decoding"
  /\ decoder' = [decoder EXCEPT !.calls[c].pc = "done"]
  /\ UNCHANGED <<file, mp4, ld, mp4Data, ex, nCalls, got, browser, renderer, again,
                 loaded, listing, storage, muxer>>

\* The caller calls destroy(): this.decoder.free() is called on the worker
\* this.decoder holds, if it holds one.
Destroy ==
  /\ decoder.pc = "made"
  /\ Len(decoder.calls) < MaxDecoderCalls
  /\ decoder' =
       IF decoder.decoder # 0
       THEN [decoder EXCEPT
               !.destroyCalled = TRUE,
               !.workers[decoder.decoder].freed = TRUE,
               !.calls = Append(@, [op |-> "destroy", pc |-> "awaitFree",
                                    worker |-> decoder.decoder,
                                    upTo |-> Len(decoder.workers)])]
       ELSE [decoder EXCEPT
               !.destroyCalled = TRUE,
               !.calls = Append(@, [op |-> "destroy", pc |-> "done", worker |-> 0,
                                    upTo |-> Len(decoder.workers)])]
  /\ UNCHANGED <<file, mp4, ld, mp4Data, ex, nCalls, got, browser, renderer, again,
                 loaded, listing, storage, muxer>>

\* free() of destroy call c settles: this.decoder = null; this.isReady =
\* false.
OnFreed(c) ==
  /\ decoder.pc = "made"
  /\ c \in 1..Len(decoder.calls)
  /\ decoder.calls[c].pc = "awaitFree"
  /\ decoder' = [decoder EXCEPT !.decoder = 0, !.isReady = FALSE,
                                !.calls[c].pc = "done"]
  /\ UNCHANGED <<file, mp4, ld, mp4Data, ex, nCalls, got, browser, renderer, again,
                 loaded, listing, storage, muxer>>

\* The caller constructs the decoder.
DecoderConstructor ==
  /\ decoder.pc = "none"
  /\ decoder' = NewDecoder
  /\ UNCHANGED <<file, mp4, ld, mp4Data, ex, nCalls, got, browser, renderer, again,
                 loaded, listing, storage, muxer>>

\* ------------------------------------------------------------ ExampleMuxer
\* The arguments of new ExampleMuxer(type).
MuxerTypes == {"video", "audio", "undefined"}

\* The chunks and metadata of the model.
ChunkTypes == {"key", "delta"}
Metas == {"undefined", "decoderConfig"}

\* A call the muxer makes on its output or its source.
Event(call, chunk, meta) == [call |-> call, chunk |-> chunk, meta |-> meta]

\* The constructor up to output.addVideoTrack: type || 'video', an
\* EncodedVideoPacketSource for 'video' and an EncodedAudioPacketSource
\* otherwise.  tracks are the tracks registered with the output, each as
\* what it was registered as and with the kind of its source; log lists the
\* calls made on the output and the source; added counts the addChunk calls.
NewMuxer(type) ==
  LET t == IF type = "undefined" THEN "video" ELSE type
  IN  [pc |-> "made", type |-> t, source |-> t, tracks |-> << >>,
       started |-> FALSE, log |-> << >>, added |-> 0, finished |-> FALSE]

\* this.output.addVideoTrack(this.source): the output takes the source as a
\* video track, or (accepted = FALSE) refuses it with a TypeError that
\* leaves the constructor.
AddVideoTrack(m, accepted) ==
  IF accepted
  THEN [m EXCEPT !.tracks = Append(@, [as |-> "video", source |-> m.source])]
  ELSE [m EXCEPT !.pc = "threw"]

\* The caller constructs the muxer.  What the output does with an audio
\* source handed to addVideoTrack is the output's business: it may take it
\* or throw.
MuxerConstructor ==
  /\ muxer.pc = "none"
  /\ \E type \in MuxerTypes, accepted \in BOOLEAN :
       /\ NewMuxer(type).source = "video" => accepted
       /\ muxer' = AddVideoTrack(NewMuxer(type), accepted)
  /\ UNCHANGED <<file, mp4, ld, mp4Data, ex, nCalls, got, browser, renderer, again,
                 loaded, listing, storage, decoder>>

\* addChunk calling output.start() on every call.
AddChunk_StartsEachTime(m, chunk, meta) ==
  [m EXCEPT !.started = TRUE,
            !.added = @ + 1,
            !.log = @ \o <<Event("start", "none", "none"), Event("add", chunk, meta)>>]

\* addChunk(chunk, meta): output.start() unless started, then
\* source.add(EncodedPacket.fromEncodedChunk(chunk), meta).
AddChunk(m, chunk, meta) ==
  [m EXCEPT !.started = TRUE,
            !.added = @ + 1,
            !.log = (IF m.started THEN @ ELSE Append(@, Event("start", "none", "none")))
                      \o <<Event("add", chunk, meta)>>]

\* The caller calls addChunk(chunk, meta).
MuxerAddChunk ==
  /\ muxer.pc = "made"
  /\ muxer.added < MaxChunks
  /\ \E chunk \in ChunkTypes, meta \in Metas : muxer' = AddChunk(muxer, chunk, meta)
  /\ UNCHANGED <<file, mp4, ld, mp4Data, ex, nCalls, got, browser, renderer, again,
                 loaded, listing, storage, decoder>>

\* The caller calls finish(): output.finalize().
Finish ==
  /\ muxer.pc = "made"
  /\ ~muxer.finished
  /\ muxer' = [muxer EXCEPT !.finished = TRUE,
                            !.log = Append(@, Event("finalize", "none", "none"))]
  /\ UNCHANGED <<file, mp4, ld, mp4Data, ex, nCalls, got, browser, renderer, again,
                 loaded, listing, storage, decoder>>

\* ------------------------------------------------------------ GPUFrameRenderer
\* canvas.getContext(contextId): a canvas gives the context of the kind it was
\* first asked for, and null for any other kind afterwards.  `fresh` is what a
\* canvas without a context gives.
GetContext(r, contextId, fresh) ==
  IF r.canvasContext = "none"
  THEN IF fresh THEN [r EXCEPT !.canvasContext = contextId] ELSE r
  ELSE r

GotContext(r, contextId, fresh) ==
  IF r.canvasContext = "none" THEN fresh ELSE r.canvasContext = contextId

\* initBitmapRenderer(): this.bitmapCtx = this.canvas.getContext('bitmaprenderer').
InitBitmapRenderer(r) ==
  [GetContext(r, "bitmaprenderer", TRUE) EXCEPT
     !.bitmapCtx = GotContext(r, "bitmaprenderer", TRUE)]

\* init() after the try block is left without a return: the fallback.
Fallback(r) == [InitBitmapRenderer(r) EXCEPT !.mode = "bitmap", !.pc = "ready"]

\* init() from the completion of `await this.initWebGPU()`: when the call
\* returned, with true or with false, this.mode = 'webgpu' and init returns;
\* when it threw, the catch block logs and the fallback follows.
InitAfterWebGPU(r, outcome) ==
  IF outcome = "threw"
  THEN Fallback([r EXCEPT !.initWebGPU = outcome])
  ELSE [r EXCEPT !.initWebGPU = outcome, !.mode = "webgpu", !.pc = "ready"]

\* init() is called: with navigator.gpu, initWebGPU runs up to its
\* `await navigator.gpu.requestAdapter()`; without, the fallback.
RendererInit ==
  /\ renderer.pc = "constructed"
  /\ renderer' = IF browser.gpu THEN [renderer EXCEPT !.pc = "adapter"]
                 ELSE Fallback(renderer)
  /\ UNCHANGED <<file, mp4, ld, mp4Data, ex, nCalls, got, browser, again, loaded, listing, storage, decoder, muxer>>

\* requestAdapter settles: if (!adapter) return false; else initWebGPU goes on
\* to `await adapter.requestDevice()`.
OnAdapter ==
  /\ renderer.pc = "adapter"
  /\ renderer' =
       CASE browser.adapter = "throws" -> InitAfterWebGPU(renderer, "threw")
         [] browser.adapter = "null" -> InitAfterWebGPU(renderer, "false")
         [] browser.adapter = "ok" -> [renderer EXCEPT !.pc = "device"]
  /\ UNCHANGED <<file, mp4, ld, mp4Data, ex, nCalls, got, browser, again, loaded, listing, storage, decoder, muxer>>

\* initWebGPU from the completion of requestDevice to its return: the device
\* is stored; the 'webgpu' context is asked of the canvas; the context is
\* configured and the sampler, buffer, shader modules and pipelines are made.
InitWebGPUFromDevice(r, b) ==
  IF b.device = "throws" THEN InitAfterWebGPU(r, "threw")
  ELSE IF b.device = "null" THEN InitAfterWebGPU(r, "false")
  ELSE
    LET r1 == [r EXCEPT !.device = TRUE]
        r2 == [GetContext(r1, "webgpu", b.context = "ok") EXCEPT
                 !.context = GotContext(r1, "webgpu", b.context = "ok")]
    IN  IF ~r2.context THEN InitAfterWebGPU(r2, "false")
        ELSE IF b.setup = "throws" THEN InitAfterWebGPU(r2, "threw")
        ELSE InitAfterWebGPU([r2 EXCEPT !.pipelines = TRUE], "true")

\* requestDevice settles.
OnDevice ==
  /\ renderer.pc = "device"
  /\ renderer' = InitWebGPUFromDevice(renderer, browser)
  /\ UNCHANGED <<file, mp4, ld, mp4Data, ex, nCalls, got, browser, again, loaded, listing, storage, decoder, muxer>>

\* drawImage(source): by this.mode, drawImageWebGPU (which uses this.device,
\* the pipeline of the filter mode and this.context), drawImageBitmap (which
\* uses this.bitmapCtx), or the 'not initialized' error.
DrawImageOutcome(r) ==
  IF r.mode = "webgpu"
  THEN IF r.device /\ r.pipelines /\ r.context THEN "webgpu" ELSE "typeError"
  ELSE IF r.mode = "bitmap"
  THEN IF r.bitmapCtx THEN "bitmap" ELSE "typeError"
  ELSE "notInitialized"

\* The caller calls drawImage.
DrawImage ==
  /\ renderer' = [renderer EXCEPT !.lastDraw = DrawImageOutcome(renderer),
                                  !.lastDrawAt = renderer.pc]
  /\ UNCHANGED <<file, mp4, ld, mp4Data, ex, nCalls, got, browser, again, loaded, listing, storage, decoder, muxer>>

\* The caller calls setFilterMode(mode) with a valid mode.
SetFilterMode ==
  /\ \E mode \in FilterModes : renderer' = [renderer EXCEPT !.filterMode = mode]
  /\ UNCHANGED <<file, mp4, ld, mp4Data, ex, nCalls, got, browser, again, loaded, listing, storage, decoder, muxer>>

\* The steps of the demuxer when every read of the byte source succeeds.
Next ==
  \/ Load
  \/ LoadOnRead
  \/ LoadContinuation
  \/ ExtractNotLoaded
  \/ ExtractSegment
  \/ \E c \in Calls : ExtractOnRead(c)

Spec == Init /\ [][Next]_vars

\* The steps when reads may fail and the file may be malformed.
FaultNext ==
  \/ Next
  \/ LoadReadError
  \/ \E c \in Calls : ExtractReadError(c)

FaultSpec == FaultInit /\ [][FaultNext]_vars

\* The steps of a caller that extracts whole tracks.
TrackNext ==
  \/ Load
  \/ LoadOnRead
  \/ LoadContinuation
  \/ ExtractNotLoaded
  \/ ExtractWholeTrack
  \/ \E c \in Calls : ExtractOnRead(c)

TrackSpec == TrackInit /\ [][TrackNext]_vars

\* The demuxer on files of every kind of track list when reads may fail.
ReadFaultSpec == MetaInit /\ [][FaultNext]_vars

\* The demuxer on a file whose metadata takes several chunks.
FeedSpec == FeedInit /\ [][TrackNext]_vars

\* The steps of a caller that may call load() twice, with a byte source whose
\* reads may fail.
ReloadNext ==
  \/ Load
  \/ \E h \in 1..2 : LoadOnReadOf(h)
  \/ LoadReadError
  \/ LoadContinuation
  \/ Reload
  \/ ReloadReadError
  \/ ReloadContinuation
  \/ \E h \in 1..2 : LoadFailed(h)
  \/ ExtractNotLoaded
  \/ ExtractSegmentHeld
  \/ \E c \in Calls : ExtractOnReadHeld(c)

ReloadSpec == ReloadInit /\ [][ReloadNext]_vars

\* The demuxer on a malformed file.
MalformedSpec == MalformedInit /\ [][FaultNext]_vars

\* A renderer as constructed, in any browser, beside a demuxer nobody uses.
RendererInit0 ==
  /\ DemuxerInit({f \in Files : f.name = "empty"})
  /\ browser \in Browsers
  /\ \E filterMode \in FilterModes : renderer = Constructor(filterMode)
  /\ listing = NoListing
  /\ storage = NoStorage
  /\ decoder = NoDecoder
  /\ muxer = NoMuxer

\* The steps of a renderer and its caller.
RendererNext ==
  \/ RendererInit
  \/ OnAdapter
  \/ OnDevice
  \/ DrawImage
  \/ SetFilterMode

RendererSpec == RendererInit0 /\ [][RendererNext]_vars

\* The steps of a caller that loads and reads the metadata, and may call
\* extractSegment too early.
MetaNext ==
  \/ Load
  \/ LoadOnRead
  \/ LoadContinuation
  \/ ExtractNotLoaded
  \/ \E op \in Getters : Get(op)

MetaSpec == MetaInit /\ [][MetaNext]_vars

\* A track list, summarised and selected from.
ListingInit ==
  /\ DemuxerInit({f \in Files : f.name = "empty"})
  /\ browser = [gpu |-> FALSE, adapter |-> "null", device |-> "null",
                context |-> "null", setup |-> "ok"]
  /\ renderer = Constructor("linear")
  /\ \E tracks \in TrackLists : listing = [NoListing EXCEPT !.tracks = tracks]
  /\ storage = NoStorage
  /\ decoder = NoDecoder
  /\ muxer = NoMuxer

ListingNext ==
  \/ ExtractTrackDataOfList
  \/ \E trackType \in TrackTypes : SelectTrack(trackType)

ListingSpec == ListingInit /\ [][ListingNext]_vars

\* The demuxer and the renderer as constructed, nobody using them.
OthersIdle ==
  /\ DemuxerInit({f \in Files : f.name = "empty"})
  /\ browser = [gpu |-> FALSE, adapter |-> "null", device |-> "null",
                context |-> "null", setup |-> "ok"]
  /\ renderer = Constructor("linear")
  /\ listing = NoListing

\* An InMemoryStorage and its caller.
StorageInit ==
  /\ OthersIdle
  /\ storage = NoStorage
  /\ decoder = NoDecoder
  /\ muxer = NoMuxer

StorageNext ==
  \/ StorageConstructor
  \/ StorageWrite
  \/ StorageToBlob

StorageSpec == StorageInit /\ [][StorageNext]_vars

\* An MP3Decoder and its caller.
DecoderInit ==
  /\ OthersIdle
  /\ storage = NoStorage
  /\ decoder = NoDecoder
  /\ muxer = NoMuxer

DecoderNext ==
  \/ DecoderConstructor
  \/ Initialize
  \/ ToSamples
  \/ \E c \in 1..MaxDecoderCalls : OnWorkerReady(c)
  \/ \E c \in 1..MaxDecoderCalls : OnDecoded(c)
  \/ Destroy
  \/ \E c \in 1..MaxDecoderCalls : OnFreed(c)

DecoderSpec == DecoderInit /\ [][DecoderNext]_vars

\* An ExampleMuxer and its caller.
MuxerInit ==
  /\ OthersIdle
  /\ storage = NoStorage
  /\ decoder = NoDecoder
  /\ muxer = NoMuxer

MuxerNext ==
  \/ MuxerConstructor
  \/ MuxerAddChunk
  \/ Finish

MuxerSpec == MuxerInit /\ [][MuxerNext]_vars

\* ------------------------------------------------------------ claims
\* Call c was made on a loaded demuxer for a track the file has.
OnPresentTrack(c) == ex[c].trackId # "none"

\* Call c was made on a loaded demuxer for a track the file lacks.
OnAbsentTrack(c) ==
  ex[c].trackType \in TrackTypes /\ Len(file[ex[c].trackType]) = 0

\* The window of call c satisfies 0 <= s < e <= duration.
ValidWindow(c) ==
  /\ 0 <= ex[c].startTime
  /\ ex[c].startTime < ex[c].endTime
  /\ ex[c].endTime <= file.duration

\* C1: an extractSegment call for a present track settles: once its pull loop
\* has ended (the source reached end-of-data or the stop condition fired), the
\* call is resolved with the samples accumulated so far, not left pending.
C1_SettlesAtEndOfData ==
  \A c \in Calls :
    (OnPresentTrack(c) /\ ex[c].pc = "ended")
      => (ex[c].promise = "resolved" /\ ex[c].result = ex[c].chunks)

\* C2: when the parser never signals metadata-ready, load() never resolves and
\* never stays pending: while it is pending a read is outstanding and every
\* read but the outstanding one has consumed bytes of the finite source, and
\* when the pull loop has ended load() is rejected with the 'Invalid MP4
\* file: metadata not available' error.
C2_TruncatedLoadRejects ==
  /\ (ld.pc = "ended" /\ ~ld.metadataReady)
       => (ld.promise = "rejected" /\ ld.error = "invalid")
  /\ ~ld.metadataReady => ld.promise # "resolved"
  /\ (ld.promise = "pending" /\ ~ld.metadataReady)
       => (ld.pc = "reading" /\ ld.reads <= ld.offset + 1 /\ ld.offset <= file.size)

\* A file cut off before its movie box was read in several chunks to its end
\* and the load was rejected as invalid.
C2_Witness ==
  /\ file.name = "truncated"
  /\ ld.reads > 1
  /\ ld.pc = "ended"
  /\ ld.promise = "rejected"
  /\ ld.error = "invalid"

\* Sample i (index from 1) of call c's track is among the returned chunks.
Returned(c, i) ==
  \E k \in 1..Len(ex[c].result) :
    ex[c].result[k].data = <<ex[c].trackId, file[ex[c].trackId][i].number>>

\* C3: a resolved extractSegment call on a present track returns every sample
\* of the track from the seek position onward whose time is in
\* [startTime, normalizedEnd); none is omitted.
C3_AllWindowSamplesReturned ==
  \A c \in Calls :
    (OnPresentTrack(c) /\ ex[c].promise = "resolved")
      => \A i \in (ex[c].seekSample + 1)..Len(file[ex[c].trackId]) :
           InWindow(file[ex[c].trackId][i], ex[c].startTime, ex[c].normalizedEnd)
             => Returned(c, i)

\* The upper bound (e + 0.5) * 1e6 on a timestamp in microseconds, scaled by
\* TicksPerSecond.
WithinUpper(c, timestamp) ==
  TicksPerSecond * timestamp
    <= MicroPerSecond * (ex[c].endTime + FRAME_RATE_THRESHOLD)

\* C4 as stated: for a window 0 <= s < e <= duration every returned sample's
\* timestamp lies in [s * 1e6, (e + 0.5) * 1e6].
C4_TimestampsInWindow ==
  \A c \in Calls :
    (ex[c].promise = "resolved" /\ ValidWindow(c))
      => \A k \in 1..Len(ex[c].result) :
           /\ TicksPerSecond * ex[c].result[k].timestamp
                >= MicroPerSecond * ex[c].startTime
           /\ WithinUpper(c, ex[c].result[k].timestamp)

\* C4 amended: for a window 0 <= s < e <= duration every returned sample's
\* timestamp lies in [round(s * 1e6), (e + 0.5) * 1e6]: the timestamp is
\* rounded to a whole microsecond and may fall below s * 1e6 by less than one.
C4_TimestampsInRoundedWindow ==
  \A c \in Calls :
    (ex[c].promise = "resolved" /\ ValidWindow(c))
      => \A k \in 1..Len(ex[c].result) :
           /\ ex[c].result[k].timestamp
                >= Round(MicroPerSecond * ex[c].startTime, TicksPerSecond)
           /\ WithinUpper(c, ex[c].result[k].timestamp)

\* A call with a valid window that starts between two microseconds returned
\* the sample at its very start.
C4_Witness ==
  \E c \in Calls :
    /\ ex[c].promise = "resolved"
    /\ ValidWindow(c)
    /\ ex[c].startTime > 0
    /\ Len(ex[c].result) > 0
    /\ ex[c].result[1].timestamp
         = Round(MicroPerSecond * ex[c].startTime, TicksPerSecond)

\* C5: once the parser has signalled metadata-ready, the loader asks the byte
\* source for no further chunk.
C5_NoReadAfterMetadataReady == ld.readsAfterReady = 0

\* C6: when the pull loop of a successful load has ended, the loader's read
\* lock on the file stream is released.
C6_LockReleasedAfterLoad ==
  (ld.pc = "ended" /\ ld.promise = "resolved") => ~ld.locked

\* C7: the loader takes no step (read completion, releaseLock, flush) after an
\* extractSegment call the caller started once load() had resolved.
C7_NoLoaderStepAfterExtract == ld.stepsAfterExtract = 0

\* C8: once a sample of the selected track at or past normalizedEnd has been
\* delivered, the call has stopped feeding and has returned.
C8_StopsPastEnd ==
  \A c \in Calls :
    ex[c].pastEnd => (ex[c].extractionFinished /\ ex[c].promise = "resolved")

\* C9: when the stop condition has fired at the end of a batch, the call is
\* resolved with exactly the samples accumulated up to that batch, no chunk
\* is appended to the parser afterwards, and once the outstanding read has
\* completed the read lock is released.
C9_StopResolvesAndDiscards ==
  \A c \in Calls :
    ex[c].extractionFinished
      => /\ ex[c].promise = "resolved"
         /\ ex[c].result = ex[c].chunks
         /\ Len(ex[c].result) = ex[c].finishedAtLen
         /\ ex[c].appendsAfterFinished = 0
         /\ (ex[c].pc = "ended" => ~ex[c].locked)

\* A call stopped by the stop condition returned samples, and its last read
\* was discarded and its lock released.
C9_Witness ==
  \E c \in Calls :
    /\ ex[c].extractionFinished
    /\ ex[c].pc = "ended"
    /\ ~ex[c].locked
    /\ Len(ex[c].result) > 0
    /\ ex[c].reads > ex[c].appends
    /\ ex[c].appends > 0

\* C10: extractSegment for a track type the loaded file lacks is resolved
\* with an empty list at once; it is never pending and never rejected.
C10_AbsentTrackResolvesEmpty ==
  \A c \in Calls :
    OnAbsentTrack(c)
      => (ex[c].promise = "resolved" /\ ex[c].result = << >> /\ ex[c].pc = "ended")

\* An audio extraction on a loaded file with a video track only resolved empty.
C10_Witness ==
  \E c \in Calls :
    /\ FileTracks(file) = {"video"}
    /\ ex[c].trackType = "audio"
    /\ ex[c].promise = "resolved"
    /\ ex[c].result = << >>

\* C11: once the parser has signalled an error to the loader, load() is
\* rejected with the parse error and stays so: no later metadata-ready signal
\* turns it into a success, and the demuxer does not become loaded.
C11_ParseErrorRejectsLoad ==
  ld.parseErrors > 0
    => (ld.promise = "rejected" /\ ld.error = "parse" /\ ~mp4Data)

\* The parser signalled an error to the loader and metadata-ready afterwards,
\* and the load is rejected with the parse error.
C11_Witness ==
  /\ ld.parseErrors > 0
  /\ ld.readyAfterError
  /\ ld.metadataReady
  /\ ld.promise = "rejected"
  /\ ld.error = "parse"

\* C12: when the parser has signalled an error to a call whose pull loop was
\* running and whose stop condition had not fired, the call is rejected with
\* the extraction error and the samples it accumulated are never returned.
C12_ParseErrorRejectsExtract ==
  \A c \in Calls :
    ex[c].errorBeforeStop
      => (ex[c].promise = "rejected" /\ ex[c].error = "parse" /\ ex[c].result = << >>)

\* A call that had accumulated samples when the parser signalled an error is
\* rejected and returns none of them.
C12_Witness ==
  \E c \in Calls :
    /\ ex[c].errorBeforeStop
    /\ ex[c].chunksAtError > 0
    /\ ex[c].promise = "rejected"
    /\ ex[c].error = "parse"
    /\ ex[c].result = << >>

\* C13: after the parser has signalled a parse error to load() or to an
\* extractSegment call, that call asks the source for no further chunk and
\* appends no further bytes to the parser.
C13_AbortsAfterParseError ==
  /\ ld.readsAfterError = 0
  /\ ld.appendsAfterError = 0
  /\ \A c \in Calls : ex[c].readsAfterError = 0 /\ ex[c].appendsAfterError = 0

\* C14: after a successful load the track metadata holds a video summary or
\* an audio summary, and the load of a file whose track list has neither a
\* video nor an audio track does not succeed.
C14_LoadedHasSummary ==
  /\ mp4Data => (ld.value[1].trackData.video # << >> \/ ld.value[1].trackData.audio # << >>)
  /\ FileTracks(file) = {} => ld.promise # "resolved"

\* load() has not completed successfully: never called, pending or failed.
Unloaded == ld.pc = "idle" \/ ld.promise \in {"pending", "rejected"}

\* C19: while no load() has completed successfully (never called, still
\* pending, or failed), every getter call throws the 'Must call load()' error
\* and every extractSegment call is rejected with it, and neither reads the
\* file nor touches the parser.
C19_UnloadedCallsFail ==
  [][Unloaded =>
       /\ got' # got => (got'.threw = "notLoaded" /\ ld' = ld /\ mp4' = mp4)
       /\ nCalls' # nCalls =>
            /\ ex'[nCalls'].promise = "rejected"
            /\ ex'[nCalls'].error = "notLoaded"
            /\ ex'[nCalls'].reads = 0
            /\ ld' = ld
            /\ mp4' = mp4]_vars

\* getInfo was called after load() had failed and threw, and an
\* extractSegment call was rejected as not loaded.
C19_Witness ==
  /\ got.op = "getInfo"
  /\ got.at = "failed"
  /\ got.threw = "notLoaded"
  /\ \E c \in Calls : ex[c].error = "notLoaded" /\ ex[c].promise = "rejected"

\* C20: for a file with an audio track and a video track that has no decoder
\* configuration box, load() succeeds and its metadata holds the audio
\* summary (and no video summary).
C20_AudioSurvivesMissingConfig ==
  (Len(file.video) > 0 /\ Len(file.audio) > 0 /\ ExtractCodecDescription(file) = << >>
     /\ ld.pc = "ended")
    => /\ ld.promise = "resolved"
       /\ ld.value[1].trackData.audio # << >>

\* Call c is extractSegment('video', 0, duration), resolved.
WholeVideo(c) ==
  /\ ex[c].trackType = "video"
  /\ ex[c].startTime = 0
  /\ ex[c].endTime = file.duration
  /\ ex[c].promise = "resolved"

\* C15: the samples extractSegment('video', 0, duration) returns have
\* non-decreasing timestamps, also for a track whose presentation order
\* differs from its delivery order.
C15_TimestampsNonDecreasing ==
  \A c \in Calls :
    WholeVideo(c)
      => \A k \in 1..(Len(ex[c].result) - 1) :
           ex[c].result[k].timestamp <= ex[c].result[k + 1].timestamp

C17_AtMostOneBatchUnreleased ==
  /\ mp4.peak <= CHUNK_SIZE
  /\ \A tt \in TrackTypes : Cardinality(mp4.delivered[tt]) <= CHUNK_SIZE

RECURSIVE ResultFrom(_, _, _, _, _, _)

\* What a call on track table tbl returns when the track is delivered from
\* sample n (counted from 0) on in batches that end at the multiples of
\* CHUNK_SIZE and at the end of the track, whatever the chunks of bytes:
\* the chunks, and whether the stop condition resolves the call.
ResultFrom(tbl, trackId, startTime, normalizedEnd, n, chunks) ==
  IF n >= Len(tbl) THEN [resolved |-> FALSE, chunks |-> chunks]
  ELSE
    LET boundary == Min(((n \div CHUNK_SIZE) + 1) * CHUNK_SIZE, Len(tbl))
        more == chunks \o Accepted(SubSeq(tbl, n + 1, boundary), trackId,
                                    startTime, normalizedEnd)
    IN  IF Len(more) > 0 /\ StopCondition(more[Len(more)].timestamp, normalizedEnd)
        THEN [resolved |-> TRUE, chunks |-> more]
        ELSE ResultFrom(tbl, trackId, startTime, normalizedEnd, boundary, more)

\* The result of extractSegment(trackType, startTime, endTime) on file f as a
\* function of the file and the arguments alone.
ResultOf(f, trackType, startTime, endTime) ==
  ResultFrom(f[trackType], trackType, startTime, NormalizedEnd(f, endTime),
             SeekSample(f[trackType], startTime) - 1, << >>)

\* C18: what the first extractSegment call on a freshly loaded demuxer
\* returns is determined by the file and the call's arguments: it is the same
\* sequence (length, timestamps, types, payloads) whatever chunks the byte
\* source delivered to load() and to the call, so two such calls agree.
C18_ResultIndependentOfChunking ==
  (OnPresentTrack(1) /\ ex[1].promise = "resolved")
    => LET r == ResultOf(file, ex[1].trackType, ex[1].startTime, ex[1].endTime)
       IN  r.resolved /\ ex[1].result = r.chunks

\* The first call returned more than one batch of samples after it had fed
\* the parser several chunks.
C18_Witness ==
  /\ OnPresentTrack(1)
  /\ ex[1].promise = "resolved"
  /\ Len(ex[1].result) > CHUNK_SIZE
  /\ ex[1].appends > 1

\* The sample of the file that chunk ch was made from.
SampleOf(ch) == file[ch.data[1]][ch.data[2] + 1]

WebGPUSucceeded ==
  /\ browser.gpu
  /\ browser.adapter = "ok"
  /\ browser.device = "ok"
  /\ browser.context = "ok"
  /\ browser.setup = "ok"

\* C23: after init() has completed, mode is 'webgpu' only if WebGPU
\* initialization fully succeeded; whenever WebGPU is unavailable or its
\* initialization did not succeed, mode is 'bitmap' and the bitmap renderer
\* context is set up.
C23_ModeReflectsInitialization ==
  renderer.pc = "ready"
    => /\ renderer.mode = "webgpu" => WebGPUSucceeded
       /\ ~WebGPUSucceeded => (renderer.mode = "bitmap" /\ renderer.bitmapCtx)

\* C24: every batch handed to the callback is released, for the selected
\* track and with the number of the batch's last sample, before the stop
\* condition is evaluated, before the call is resolved and before the next
\* batch is handed over; no release names anything else.
C24_ReleaseFollowsEachBatch ==
  /\ mp4.unreleased = << >>
  /\ ~mp4.overrun
  /\ ~mp4.strayRelease
  /\ \A c \in Calls : ~ex[c].checkedUnreleased /\ ~ex[c].resolvedUnreleased

\* A call handled two batches and was resolved by the stop condition on the
\* second, whose last sample is the one named in the last release.
C24_Witness ==
  \E c \in Calls :
    /\ OnPresentTrack(c)
    /\ ex[c].batches = 2
    /\ ex[c].extractionFinished
    /\ ex[c].promise = "resolved"
    /\ mp4.lastValidSample[ex[c].trackId] = 2 * CHUNK_SIZE - 1

\* C25: the accumulated sample list of an extractSegment call receives only
\* samples produced by bytes this call fed, never samples produced by the
\* feeding of another call that overlaps it.
C25_NoSamplesFromOtherCallsFeeding ==
  \A c \in Calls : ~ex[c].fedByOther

\* C26: once an extractSegment promise has resolved, the list it returned
\* (the call's chunks array) is never changed again by any later step of the
\* demuxer: no callback, flush or read appends to it, removes from it or
\* changes an element.
C26_ResolvedListNeverModified ==
  [][\A c \in Calls :
       ex[c].promise = "resolved" => ex'[c].chunks = ex[c].chunks]_vars

\* A call resolved with samples, its pull loop ended, and a later call on the
\* same track was fed and resolved with samples too; the first list is still
\* what was returned.
C26_Witness ==
  \E c, d \in Calls :
    /\ c < d
    /\ ex[c].promise = "resolved" /\ ex[d].promise = "resolved"
    /\ ex[c].pc = "ended"
    /\ ex[c].trackId = ex[d].trackId /\ OnPresentTrack(c)
    /\ Len(ex[c].result) > 0 /\ ex[d].batches > 0 /\ Len(ex[d].result) > 0
    /\ ex[c].chunks = ex[c].result

\* The last call made for a track the file has, 0 if there is none.
LastPresentCall ==
  LET S == {c \in 1..nCalls : OnPresentTrack(c)}
  IN  IF S = {} THEN 0 ELSE CHOOSE c \in S : \A d \in S : d <= c

\* C27: from the moment a call for a present track starts feeding bytes, and
\* until the next such call, exactly one track has extraction options set on
\* the parser, the track that call selected; options earlier calls set on
\* other tracks are gone.
C27_OnlySelectedTrackExtracted ==
  LastPresentCall > 0
    => /\ Len(mp4.extracted) = 1
       /\ mp4.extracted[1].id = ex[LastPresentCall].trackId

\* A call on the audio track made after a call on the video track had ended:
\* the audio track alone has extraction options.
C27_Witness ==
  /\ nCalls = 2
  /\ ex[1].trackId = "video" /\ ex[1].pc = "ended" /\ ex[1].promise = "resolved"
  /\ ex[2].trackId = "audio" /\ ex[2].appends > 0
  /\ Len(mp4.extracted) = 1
  /\ mp4.extracted[1].id = "audio"

\* C28: chunks are fed to the parser contiguously: the loader's first buffer
\* has fileStart 0, a call's first buffer has fileStart equal to the offset
\* its seek returned and is appended after its seek and start, and every
\* later buffer starts where the one before it ended.
C28_ChunksFedContiguously ==
  /\ ld.feedOk
  /\ \A c \in Calls : ex[c].feedOk

\* After a load of several chunks, a call whose seek returned an offset
\* inside the sample data has appended several chunks from there.
C28_Witness ==
  \E c \in Calls :
    /\ ld.feedEnd > 0 /\ ld.reads > 2
    /\ ex[c].seekOffset > file.moovEnd
    /\ ex[c].appends > 1
    /\ ex[c].feedEnd > ex[c].seekOffset

\* The samples handed to the handler of call c so far: the track's samples
\* from the call's seek position on, in delivery order.
HandledBy(c) ==
  SubSeq(file[ex[c].trackId], ex[c].seekSample + 1, ex[c].seekSample + ex[c].handled)

\* The image of a sequence of samples for call c: one chunk for each sample
\* with startTime <= cts / timescale < normalizedEnd, in the same order.
ImageOf(c, samples) ==
  LET Passes(s) == /\ s.cts * TicksPerSecond >= ex[c].startTime * s.timescale
                   /\ s.cts * TicksPerSecond < ex[c].normalizedEnd * s.timescale
      kept == SelectSeq(samples, Passes)
  IN  [i \in 1..Len(kept) |->
         [type |-> IF kept[i].is_sync THEN "key" ELSE "delta",
          timestamp |-> (2 * MicroPerSecond * kept[i].cts + kept[i].timescale)
                          \div (2 * kept[i].timescale),
          duration |-> (2 * MicroPerSecond * kept[i].duration + kept[i].timescale)
                         \div (2 * kept[i].timescale),
          data |-> <<ex[c].trackId, kept[i].number>>]]

\* C29: the list a call accumulates and returns is the order-preserving
\* one-to-one image of the delivered samples that pass the window test: one
\* chunk each, in delivery order, of type 'key' exactly when the sample is a
\* sync sample, with timestamp round(1e6 * cts / timescale) and duration
\* round(1e6 * duration / timescale); samples below startTime do not appear.
C29_ListIsImageOfAccepted ==
  \A c \in Calls :
    OnPresentTrack(c)
      => /\ ex[c].chunks = ImageOf(c, HandledBy(c))
         /\ ex[c].promise = "resolved" => ex[c].result = ImageOf(c, HandledBy(c))

\* A resolved call was handed samples below its startTime and samples in its
\* window, and returned fewer chunks than it was handed samples.
C29_Witness ==
  \E c \in Calls :
    /\ OnPresentTrack(c)
    /\ ex[c].promise = "resolved"
    /\ Len(ex[c].result) > 0
    /\ ex[c].handled > Len(ex[c].result)
    /\ \E i \in 1..ex[c].handled :
         HandledBy(c)[i].cts * TicksPerSecond < ex[c].startTime * HandledBy(c)[i].timescale

\* C30: an extractSegment call for a track type the file lacks leaves the
\* parser as it was (handlers, extraction options, sample positions, started
\* flag), reads nothing from the file and touches no other call.
C30_AbsentTrackLeavesParserAlone ==
  [][(/\ mp4Data
      /\ nCalls' = nCalls + 1
      /\ ex'[nCalls'].trackType \in TrackTypes
      /\ Len(file[ex'[nCalls'].trackType]) = 0)
       => /\ mp4' = mp4
          /\ ld' = ld
          /\ ex'[nCalls'].reads = 0
          /\ ex'[nCalls'].appends = 0
          /\ ~ex'[nCalls'].locked
          /\ \A d \in Calls \ {nCalls'} : ex'[d] = ex[d]]_vars

\* A call for an absent track was made while an earlier call was in flight:
\* the earlier call's handler and extraction options are still in place.
C30_Witness ==
  \E c, d \in Calls :
    /\ d < c
    /\ OnAbsentTrack(c) /\ ex[c].promise = "resolved" /\ ex[c].reads = 0
    /\ OnPresentTrack(d) /\ ex[d].pc = "reading"
    /\ mp4.onSamples = d
    /\ Len(mp4.extracted) = 1 /\ mp4.extracted[1].id = ex[d].trackId

\* C31: a load() that fails leaves the loaded state as it was: the step in
\* which load() number h throws changes neither which load() the demuxer
\* holds (none, if none had succeeded) nor what getTracks and getInfo
\* answer, and every extractSegment call is given the parser of the load()
\* held when it is made.
C31_FailedLoadLeavesLoadedState ==
  [][/\ \A h \in 1..2 :
          loaded.returned[h] = "no" /\ loaded'.returned[h] = "threw"
          => /\ loaded'.from = loaded.from
             /\ mp4Data' = mp4Data
             /\ GetTracks' = GetTracks
             /\ GetInfo' = GetInfo
     /\ nCalls' = nCalls + 1 /\ mp4Data => ex'[nCalls'].parser = loaded.from
     /\ nCalls' = nCalls + 1 /\ ~mp4Data => ex'[nCalls'].error = "notLoaded"]_vars

\* The second load() has failed after the first succeeded, and a call has
\* been given the first parser.
C31_Witness ==
  /\ loaded.returned = <<"ok", "threw">>
  /\ loaded.from = 1
  /\ mp4Data
  /\ GetTracks.threw = "none"
  /\ \E c \in Calls : ex[c].parser = 1 /\ ex[c].promise = "resolved"

\* The sample-description entries of the file's video track that carry an
\* avcC, hvcC, vpcC or av1C box.
CarryingEntries ==
  {i \in 1..Len(file.stsd) :
     \E k \in 1..Len(ConfigBoxes) : ConfigBoxes[k] \in file.stsd[i]}

\* C32: the codec description of a loaded video track is taken from the
\* first sample-description entry, in entry order, that carries one of the
\* four configuration boxes, and is that box's big-endian serialization
\* without its first 8 bytes; when no entry carries any of them the
\* extractor throws and load() rejects.
C32_DescriptionFromFirstCarryingEntry ==
  /\ (ld.promise = "resolved" /\ Len(file.video) > 0)
       => /\ ld.value[1].trackData.video # << >>
          /\ LET d == ld.value[1].trackData.video[1].description
                 whole == BoxWrite(d.entry, d.box)
             IN  /\ d.entry \in CarryingEntries
                 /\ \A j \in CarryingEntries : d.entry <= j
                 /\ d.box \in file.stsd[d.entry]
                 /\ \E k \in 1..Len(ConfigBoxes) : ConfigBoxes[k] = d.box
                 /\ Len(whole) = 8 + Len(DescriptionBytes(d))
                 /\ whole = SubSeq(whole, 1, 8) \o DescriptionBytes(d)
                 /\ whole[1] * 16777216 + whole[2] * 65536 + whole[3] * 256 + whole[4]
                      = Len(whole)
                 /\ DescriptionBytes(d) = Payload(d.entry, d.box)
  /\ (ld.pc = "ended" /\ Len(file.video) > 0 /\ CarryingEntries = {})
       => ld.promise = "rejected" /\ ld.error = "config"

\* A file whose second and third entries carry configuration boxes has been
\* loaded, and the description is the second entry's box without its header.
C32_Witness ==
  /\ Cardinality(CarryingEntries) > 1
  /\ 1 \notin CarryingEntries
  /\ mp4Data
  /\ ld.promise = "resolved"
  /\ ld.value[1].trackData.video # << >>
  /\ ld.value[1].trackData.video[1].description.entry = 2
  /\ Len(DescriptionBytes(ld.value[1].trackData.video[1].description)) > 0

\* The place of the first track of a type in the track list, 0 if there is
\* none.
FirstOfType(type) ==
  LET of == {i \in 1..Len(listing.tracks) : listing.tracks[i].type = type}
  IN  IF of = {} THEN 0 ELSE CHOOSE i \in of : \A j \in of : i <= j

\* C33: the audio summary is computed from the first audio track only:
\* sampleRate is its sample entry's sample rate when that is there and the
\* track's timescale otherwise, numberOfChannels the entry's channel count
\* when that is there and 2 otherwise; the video summary is the first video
\* track's, and extractSegment reads the first track of the type asked for,
\* whatever further tracks the list has.
C33_FirstAudioTrackOnly ==
  /\ listing.trackData # << >> =>
       LET a == FirstOfType("audio")
           v == FirstOfType("video")
           td == listing.trackData[1]
       IN  /\ a = 0 => td.audio = << >>
           /\ a # 0 =>
                LET t == listing.tracks[a]
                    hasRate == t.audio # << >> /\ t.audio[1].sample_rate # << >>
                    hasCount == t.audio # << >> /\ t.audio[1].channel_count # << >>
                IN  /\ td.audio # << >>
                    /\ td.audio[1].codec = t.codec
                    /\ hasRate => td.audio[1].sampleRate = t.audio[1].sample_rate[1]
                    /\ ~hasRate => td.audio[1].sampleRate = t.timescale
                    /\ hasCount => td.audio[1].numberOfChannels = t.audio[1].channel_count[1]
                    /\ ~hasCount => td.audio[1].numberOfChannels = 2
           /\ v = 0 => td.video = << >>
           /\ v # 0 => td.video # << >> /\ td.video[1].track = v
                       /\ td.video[1].codec = listing.tracks[v].codec
  /\ listing.selected # << >> =>
       listing.selected[1].id = FirstOfType(listing.selected[1].trackType)

\* A list with two audio tracks that differ, the first with a sample entry
\* giving a sample rate of 0 and no channel count, has been summarised, and
\* an audio extraction has picked its track.
C33_Witness ==
  /\ Len(TracksOfType(listing.tracks, "audio")) > 1
  /\ LET a == listing.tracks[TracksOfType(listing.tracks, "audio")[1]]
         b == listing.tracks[TracksOfType(listing.tracks, "audio")[2]]
     IN  /\ a # b
         /\ a.audio # << >>
         /\ a.audio[1].sample_rate = <<0>>
         /\ a.audio[1].channel_count = << >>
  /\ listing.trackData # << >>
  /\ listing.trackData[1].audio[1].sampleRate = 0
  /\ listing.trackData[1].audio[1].numberOfChannels = 2
  /\ listing.selected # << >>
  /\ listing.selected[1].trackType = "audio"
  /\ listing.selected[1].id # 0

\* C37: a drawImage call made before init() has completed throws the
\* 'GPUDrawImage not initialized. Call init() first.' error and renders
\* nothing.
C37_DrawBeforeInitNotInitialized ==
  renderer.lastDrawAt \in {"constructed", "adapter", "device"}
    => renderer.lastDraw = "notInitialized"

\* C34: after any sequence of writes toBlob() yields exactly `size` bytes,
\* and size is the largest position + length over the writes, also when the
\* writes leave whole chunks unwritten between or before written regions.
C34_BlobHasSizeBytes ==
  storage.pc = "made" =>
    /\ storage.size = storage.top
    /\ storage.blob # << >> => Len(storage.blob[1]) = storage.size

\* Position p of the storage lies in a stored chunk.
Stored(p) == (p \div storage.chunkSize) \in DOMAIN storage.chunks

\* The byte the storage holds at position p.
StoredByte(p) == storage.chunks[p \div storage.chunkSize][(p % storage.chunkSize) + 1]

\* C35: overlapping writes are resolved last-write-wins per byte: for every
\* position below size in a stored chunk the stored byte is the byte of the
\* most recent write covering the position, or 0 if no write covered it,
\* also for writes spanning several chunks.
C35_LastWriteWins ==
  storage.pc = "made" =>
    \A p \in Positions :
      (p < storage.size /\ Stored(p)) => StoredByte(p) = storage.latest[p]

\* A write has gone over written bytes, a write has reached into three
\* chunks, and a stored position below size was never written.
C35_Witness ==
  /\ storage.pc = "made"
  /\ storage.overlapped
  /\ storage.spanned
  /\ \E p \in Positions : p < storage.size /\ Stored(p) /\ p \notin storage.covered
  /\ \E p \in Positions : p < storage.size /\ Stored(p) /\ storage.latest[p] > 20

\* C36: for any interleaving of initialize() and toSamples() calls on one
\* MP3Decoder, also calls made while an earlier initialize() still waits for
\* readiness, at most one decoder worker is created until destroy() is
\* called, and a destroy() that has returned has freed every worker created
\* before it was called.
C36_OneWorkerAndAllFreed ==
  decoder.pc = "made" =>
    /\ ~decoder.destroyCalled => Len(decoder.workers) <= 1
    /\ \A c \in 1..Len(decoder.calls) :
         (decoder.calls[c].op = "destroy" /\ decoder.calls[c].pc = "done")
           => \A w \in 1..decoder.calls[c].upTo : decoder.workers[w].freed

\* The places of the calls of a kind in the muxer's log.
CallsOf(call) == {i \in 1..Len(muxer.log) : muxer.log[i].call = call}

\* C38: for any sequence of addChunk calls output.start() is invoked exactly
\* once, before the first packet is added to the source, and never again on
\* later calls.
C38_StartedOnceBeforeFirstPacket ==
  muxer.pc = "made" =>
    /\ Cardinality(CallsOf("add")) = muxer.added
    /\ muxer.added = 0 => CallsOf("start") = {}
    /\ muxer.added > 0 =>
         /\ Cardinality(CallsOf("start")) = 1
         /\ \A i \in CallsOf("start"), j \in CallsOf("add") : i < j

\* Several chunks have been added, one of them after finish().
C38_Witness ==
  /\ muxer.pc = "made"
  /\ muxer.added > 1
  /\ muxer.log[1].call = "start"
  /\ \E i \in CallsOf("finalize"), j \in CallsOf("add") : i < j

\* C39: the muxer registers its one track according to its type:
\* constructed with 'audio' its audio packet source is an audio track of the
\* output, constructed with 'video' or no argument its video packet source
\* is a video track.
C39_TrackRegisteredByType ==
  muxer.pc # "none" =>
    /\ muxer.source = muxer.type
    /\ muxer.tracks = << [as |-> muxer.type, source |-> muxer.type] >>

====
